---- MODULE Spec2Model ----
(***************************************************************************)
(* HL7 <-> JSON codec of the CMS-1500 converter.                           *)
(*                                                                         *)
(* Three components carry a codec:                                         *)
(*   "CMS"  src/CMSConverter.tsx          (hl7Mappings lists + switch)      *)
(*   "TD"   src/unnamed/part_000:1-654    (table-driven, segmentDefinitions *)
(*                                         and segmentFieldMappings)        *)
(*   "PDF"  src/unnamed/part_000:656-1424 (template encoder + switch)       *)
(*                                                                         *)
(* The third component also reads a CMS-1500 PDF: extractDataFromPDF        *)
(* (src/unnamed/part_000:788-938) cleans the text of the pages, rejects a  *)
(* text that is too short or has no keyword, runs the regular expressions  *)
(* of fieldExtractors over it and checks the quorum of required fields.    *)
(*                                                                         *)
(* A JavaScript string is a sequence of one-character strings, so that     *)
(* join, split, trim, startsWith, padStart and the regular expressions are *)
(* computed character by character.  Property names of the schema tables   *)
(* (field names) are TLA+ strings.  A record is a function from segment    *)
(* keys (character sequences) to field maps (functions from field names to *)
(* character sequences); index i of a JavaScript array is index i+1 of the *)
(* sequence that models it.                                                *)
(*                                                                         *)
(* The React state of the three components (selected files, contents,      *)
(* isLoading, error) is modelled with one action per event handler; a      *)
(* handler runs to its first await in the turn of the event, and the rest  *)
(* of it runs in the turn in which the awaited promise settles.            *)
(***************************************************************************)
EXTENDS Integers, Sequences, FiniteSets, TLC

VARIABLES
    dateStr, dateOut, dateOut2, datePc,      \* formatDate applied (twice)
    segName, segFields, segLine, segPc,      \* createSegment applied
    variant,       \* the component whose codec runs: "CMS", "TD" or "PDF"
    data,          \* jsonDataRef.current: the parsed input record
    keyOrder,      \* Object.keys(data): the record's keys in insertion order
    hl7,           \* the wire text: convertToHL7's result, convertHL7ToJson's input
    obxSorted,     \* the filtered and sorted OBX keys inside convertToHL7
    json,          \* convertHL7ToJson's result
    pc,            \* "json_in" | "hl7_in" | "encoded" | "decoded" | "idle"
    pdfReadable,   \* pdf.js can read the file given to extractDataFromPDF
    pdfPages,      \* the text items (item.str) of each page of the PDF
    normalizedText,            \* the cleaned text of the pages
    extractedData,             \* the fields extracted, defaults included on return
    missingRequiredFields,     \* the names pushed by the loop over fieldExtractors
    requiredFieldsFound,       \* the counter of the loop over fieldExtractors
    extractOutcome,  \* "record" | "no_valid_data" | "insufficient" | "type_error"
                     \* | "load_error" | "none"
    extractPc,       \* "pdf" | "done" | "idle"
    convVariant,   \* the component whose convertToHL7 is invoked: "CMS" or "TD"
    convFiles,     \* the file each invocation of convertToHL7 was given
    convPc,        \* each invocation: "idle" | "reading" | "returned"
    jsonDataRef,   \* the component's jsonDataRef: .current and its Object.keys
    convResult,    \* what each invocation returned or threw
    convLog,       \* the calls and the settled reads so far, in order
    detEncoder,    \* the encoder applied: "CMS", "PDF" or "FIXED"
    detInput,      \* the record it is applied to
    now,           \* the clock: milliseconds since BaseInstant
    detOut,        \* the wire texts returned so far
    detTimes,      \* the clock at each return
    jsonRecord,    \* the parsed JSON given to extractDataFromJson
    jsonFields,    \* the CMS1500Data it builds
    jsonOutcome,   \* "record" | "invalid" | "insufficient" | "none"
    jsonWire,      \* convertToHL7 of the record returned
    jsonPc,        \* "json" | "extracted" | "encoded" | "idle"
    component,     \* the component on screen: "Three" (CMS1500ToHL7Converter),
                   \* "TwoWay" (first component of part_000), "CMS" or "none"
    pdfFile, hl7File, jsonFile,    \* useState<File | null>
    hl7TextInput,  \* the text area of the two-way converter
    hl7Content,    \* useState<string>
    jsonContent,   \* useState<HL7Json | null>
    isLoading,     \* useState<boolean>
    error,         \* useState<string>
    inFlight,      \* the conversion handlers suspended at an await
    requests,      \* the number of conversions requested so far
    lastAccepted,  \* the file of the last accepted drop
    clicked,       \* the file the last click converted, and lastAccepted then
    errorFrom,     \* the request whose failure set the error shown, or 0
    resultFrom     \* the request whose result is shown, or 0

dateVars == <<dateStr, dateOut, dateOut2, datePc>>
segVars == <<segName, segFields, segLine, segPc>>
codecVars == <<variant, data, keyOrder, hl7, obxSorted, json, pc>>
extractVars ==
    <<pdfReadable, pdfPages, normalizedText, extractedData, missingRequiredFields,
      requiredFieldsFound, extractOutcome, extractPc>>
concVars == <<convVariant, convFiles, convPc, jsonDataRef, convResult, convLog>>
detVars == <<detEncoder, detInput, now, detOut, detTimes>>
coreVars == <<dateVars, segVars, codecVars, extractVars>>
fromJsonVars == <<jsonRecord, jsonFields, jsonOutcome, jsonWire, jsonPc>>
uiVars ==
    <<component, pdfFile, hl7File, jsonFile, hl7TextInput, hl7Content, jsonContent,
      isLoading, error, inFlight, requests, lastAccepted, clicked, errorFrom, resultFrom>>
laterVars == <<concVars, detVars, fromJsonVars, uiVars>>
vars == <<coreVars, laterVars>>

(***************************************************************************)
(* Strings                                                                 *)
(***************************************************************************)
EmptyStr == <<>>

Digits == {"0", "1", "2", "3", "4", "5", "6", "7", "8", "9"}

\* \d{n}: every character of s is a decimal digit
AllDigits(s) == \A i \in 1..Len(s) : s[i] \in Digits

RECURSIVE padStart(_, _, _)
\* String.prototype.padStart(n, c) with a one-character pad string
padStart(s, n, c) == IF Len(s) >= n THEN s ELSE padStart(<<c>> \o s, n, c)

RECURSIVE Join(_, _)
\* Array.prototype.join(sep)
Join(parts, sep) ==
    IF parts = <<>> THEN EmptyStr
    ELSE IF Len(parts) = 1 THEN parts[1]
    ELSE parts[1] \o sep \o Join(Tail(parts), sep)

RECURSIVE SplitFrom(_, _, _)
\* the pieces of s between occurrences of the character c, cur being the
\* piece collected so far
SplitFrom(s, c, cur) ==
    IF s = <<>> THEN <<cur>>
    ELSE IF Head(s) = c THEN <<cur>> \o SplitFrom(Tail(s), c, EmptyStr)
    ELSE SplitFrom(Tail(s), c, Append(cur, Head(s)))

\* String.prototype.split(c) with a one-character separator
Split(s, c) == SplitFrom(s, c, EmptyStr)

(***************************************************************************)
(* formatDate: src/CMSConverter.tsx:57-64, textually the same function as  *)
(* src/unnamed/part_000:82-89.                                             *)
(***************************************************************************)
DateSeps == {"-", "/"}

\* /^\d{8}$/
IsDate8(s) == Len(s) = 8 /\ AllDigits(s)

\* /^(\d{1,2})[-/](\d{1,2})[-/](\d{4})$/ : the lengths <<a, b>> of the first
\* two groups for which s matches (at most one pair, a separator being no digit)
MatchMDY(s) ==
    {ab \in (1..2) \X (1..2) :
        LET a == ab[1]
            b == ab[2]
        IN  /\ Len(s) = a + b + 6
            /\ AllDigits(SubSeq(s, 1, a))
            /\ s[a + 1] \in DateSeps
            /\ AllDigits(SubSeq(s, a + 2, a + 1 + b))
            /\ s[a + b + 2] \in DateSeps
            /\ AllDigits(SubSeq(s, a + b + 3, a + b + 6))}

\* mutant of DateToken: the month and the day are not padded
DateTokenUnpadded(month, day, year) == year \o month \o day

\* mutant of DateToken: the day is taken for the month
DateTokenSwapped(month, day, year) ==
    year \o padStart(day, 2, "0") \o padStart(month, 2, "0")

\* the template `${year}${month.padStart(2,'0')}${day.padStart(2,'0')}`
DateToken(month, day, year) ==
    year \o padStart(month, 2, "0") \o padStart(day, 2, "0")

formatDate(s) ==
    IF s # EmptyStr /\ IsDate8(s) THEN s
    ELSE IF s # EmptyStr /\ MatchMDY(s) # {}
    THEN LET ab == CHOOSE x \in MatchMDY(s) : TRUE
             a == ab[1]
             b == ab[2]
         IN  DateToken(SubSeq(s, 1, a),
                       SubSeq(s, a + 2, a + 1 + b),
                       SubSeq(s, a + b + 3, a + b + 6))
    ELSE EmptyStr

(***************************************************************************)
(* createSegment: src/CMSConverter.tsx:67-73, the same function as         *)
(* src/unnamed/part_000:92-97.                                             *)
(***************************************************************************)
Pipe == "|"

RECURSIVE PopTrailingEmpty(_)
\* while (fields.length > 1 && fields[fields.length - 1] === '') fields.pop()
PopTrailingEmpty(fields) ==
    IF Len(fields) > 1 /\ fields[Len(fields)] = EmptyStr
    THEN PopTrailingEmpty(SubSeq(fields, 1, Len(fields) - 1))
    ELSE fields

createSegment(segmentName, fields) ==
    Join(<<segmentName>> \o PopTrailingEmpty(fields), <<Pipe>>)

(***************************************************************************)
(* Segment types and JavaScript objects                                    *)
(***************************************************************************)
MSH == <<"M", "S", "H">>
PID == <<"P", "I", "D">>
PV1 == <<"P", "V", "1">>
PR1 == <<"P", "R", "1">>
IN1 == <<"I", "N", "1">>
OBX == <<"O", "B", "X">>
DG1 == <<"D", "G", "1">>

NewLine == "\n"
WhiteSpace == {" ", "\t", "\r", NewLine}

\* {}: the object with no property
EmptyObj == [k \in {} |-> EmptyStr]

\* obj[k] = v
Put(obj, k, v) == [x \in DOMAIN obj \cup {k} |-> IF x = k THEN v ELSE obj[x]]

\* `field${n}`
FieldKey(n) == "field" \o ToString(n)

\* fields[i] || "" for the JavaScript index i
FieldAt(fields, i) == IF i + 1 <= Len(fields) THEN fields[i + 1] ELSE EmptyStr

\* String.prototype.startsWith
StartsWith(s, prefix) ==
    Len(s) >= Len(prefix) /\ SubSeq(s, 1, Len(prefix)) = prefix

\* line.trim() is the empty string
IsBlank(line) == \A i \in 1..Len(line) : line[i] \in WhiteSpace

\* the order of the characters that setId values and record keys are made of;
\* on these, String.prototype.localeCompare orders as the sequence does
CharOrder ==
    <<"0", "1", "2", "3", "4", "5", "6", "7", "8", "9",
      "A", "B", "C", "D", "E", "F", "G", "H", "I", "J", "K", "L", "M",
      "N", "O", "P", "Q", "R", "S", "T", "U", "V", "W", "X", "Y", "Z">>

CharRank(c) == CHOOSE i \in 1..Len(CharOrder) : CharOrder[i] = c

RECURSIVE localeCompare(_, _)
\* a.localeCompare(b): negative, zero or positive
localeCompare(a, b) ==
    IF a = <<>> /\ b = <<>> THEN 0
    ELSE IF a = <<>> THEN -1
    ELSE IF b = <<>> THEN 1
    ELSE IF CharRank(Head(a)) < CharRank(Head(b)) THEN -1
    ELSE IF CharRank(Head(a)) > CharRank(Head(b)) THEN 1
    ELSE localeCompare(Tail(a), Tail(b))

(***************************************************************************)
(* Encoder of src/CMSConverter.tsx                                         *)
(***************************************************************************)
\* getNestedValue(obj, 'SEG.name'): the path is the pair <<SEG, name>>
getNestedValue(obj, path) ==
    IF path[1] \in DOMAIN obj /\ path[2] \in DOMAIN obj[path[1]]
    THEN obj[path[1]][path[2]]
    ELSE EmptyStr

\* FieldMapping entries: { path }, { path, transform: formatDate }, { value: '' }
FP(seg, name) == [path |-> <<seg, name>>, transform |-> FALSE]
FT(seg, name) == [path |-> <<seg, name>>, transform |-> TRUE]
FV == [path |-> <<>>, transform |-> FALSE]

hl7MappingsOrder == <<MSH, PID, PV1, PR1, IN1>>

hl7Mappings(seg) ==
    CASE seg = MSH ->
           <<FP(MSH, "encodingCharacters"), FV, FP(MSH, "sendingApplication"),
             FP(MSH, "sendingFacility"), FP(MSH, "receivingApplication"),
             FP(MSH, "receivingFacility"), FT(MSH, "dateTime"), FV,
             FP(MSH, "messageType"), FP(MSH, "controlId"),
             FP(MSH, "processingId"), FP(MSH, "versionId")>>
      [] seg = PID ->
           <<FP(PID, "setId"), FV, FP(PID, "patientId"), FV,
             FP(PID, "patientName"), FV, FT(PID, "dob"), FP(PID, "gender"),
             FV, FV, FP(PID, "address"), FV, FP(PID, "phoneNumber"),
             FV, FV, FV, FV, FP(PID, "patientAccountNumber")>>
      [] seg = PV1 ->
           <<FP(PV1, "setId"), FP(PV1, "patientClass"), FV, FV, FV, FV,
             FP(PV1, "attendingDoctor"), FV, FV, FV, FV, FV, FV, FV, FV, FV,
             FV, FV, FP(PV1, "providerPhoneNumber")>>
      [] seg = PR1 ->
           <<FP(PR1, "setId"), FV, FP(PR1, "procedureCode"),
             FP(PR1, "procedureDescription"), FT(PR1, "procedureDate"),
             FV, FV, FV, FV, FV, FP(PR1, "providerName")>>
      [] seg = IN1 ->
           <<FP(IN1, "setId"), FP(IN1, "insurancePlan"), FP(IN1, "otherInsured"),
             FP(IN1, "insuranceId"), FP(IN1, "secondaryInsurancePlan"),
             FV, FV, FV, FV, FV, FV, FV, FV, FV, FV,
             FP(IN1, "insuredName"), FV, FT(IN1, "insuredDob"),
             FP(IN1, "insuredAddress"), FP(IN1, "insuredPhoneNumber")>>

\* fields.map(field => ...) of one hl7Mappings entry list
MappedFieldsCMS(obj, fields) ==
    [k \in 1..Len(fields) |->
        LET value == IF fields[k].path # <<>>
                     THEN getNestedValue(obj, fields[k].path)
                     ELSE EmptyStr
        IN  IF fields[k].transform THEN formatDate(value) ELSE value]

\* Object.entries(hl7Mappings).forEach(...): one line per mapping, always
StandardSegmentsCMS(obj) ==
    [i \in 1..Len(hl7MappingsOrder) |->
        createSegment(hl7MappingsOrder[i],
                      MappedFieldsCMS(obj, hl7Mappings(hl7MappingsOrder[i])))]

(***************************************************************************)
(* The OBX part of convertToHL7, the same in src/CMSConverter.tsx:190-214  *)
(* and src/unnamed/part_000:176-199                                        *)
(***************************************************************************)
\* obj[k]?.setId || k
ObxSortId(obj, k) ==
    IF "setId" \in DOMAIN obj[k] /\ obj[k]["setId"] # EmptyStr
    THEN obj[k]["setId"]
    ELSE k

\* mutant of ObxCompare: the keys are compared, never the setId
ObxCompareByKey(obj, a, b) == localeCompare(a, b)

\* the comparator handed to sort
ObxCompare(obj, a, b) == localeCompare(ObxSortId(obj, a), ObxSortId(obj, b))

RECURSIVE InsertSorted(_, _, _)
\* x put behind every element of the sorted list that does not compare
\* greater than x
InsertSorted(obj, sorted, x) ==
    IF sorted = <<>> THEN <<x>>
    ELSE IF ObxCompare(obj, Head(sorted), x) <= 0
    THEN <<Head(sorted)>> \o InsertSorted(obj, Tail(sorted), x)
    ELSE <<x>> \o sorted

RECURSIVE SortObx(_, _)
\* Array.prototype.sort with ObxCompare: stable
SortObx(obj, keys) ==
    IF keys = <<>> THEN <<>>
    ELSE InsertSorted(obj, SortObx(obj, SubSeq(keys, 1, Len(keys) - 1)), keys[Len(keys)])

IsObxKey(k) == StartsWith(k, OBX)

\* Object.keys(obj).filter(key => key.startsWith('OBX')).sort(...)
SortedObxKeys(obj, keys) == SortObx(obj, SelectSeq(keys, IsObxKey))

\* the eleven fields of one OBX line
ObxFields(obxData) ==
    LET val(name) == IF name \in DOMAIN obxData THEN obxData[name] ELSE EmptyStr
    IN  <<val("setId"), val("valueType"), val("observationIdentifier"), EmptyStr,
          val("observationValue"), EmptyStr, EmptyStr, EmptyStr, EmptyStr, EmptyStr,
          val("observationStatus")>>

ObxSegments(obj, sortedKeys) ==
    [i \in 1..Len(sortedKeys) |-> createSegment(OBX, ObxFields(obj[sortedKeys[i]]))]

\* convertToHL7 of src/CMSConverter.tsx:170-220
convertToHL7_CMS(obj, keys) ==
    Join(StandardSegmentsCMS(obj) \o ObxSegments(obj, SortedObxKeys(obj, keys)),
         <<NewLine>>)

(***************************************************************************)
(* Table-driven encoder of src/unnamed/part_000:100-205                    *)
(***************************************************************************)
FD(name, i) == [field |-> name, index |-> i, transform |-> FALSE]
FDT(name, i) == [field |-> name, index |-> i, transform |-> TRUE]

segmentDefinitionsOrder == <<MSH, PID, PV1, PR1, IN1>>

segmentDefinitions(seg) ==
    CASE seg = MSH ->
           <<FD("encodingCharacters", 1), FD("sendingApplication", 2),
             FD("sendingFacility", 3), FD("receivingApplication", 4),
             FD("receivingFacility", 5), FDT("dateTime", 6),
             FD("messageType", 8), FD("controlId", 9),
             FD("processingId", 10), FD("versionId", 11)>>
      [] seg = PID ->
           <<FD("setId", 1), FD("patientId", 3), FD("patientName", 5),
             FDT("dob", 7), FD("gender", 8), FD("address", 11),
             FD("phoneNumber", 13), FD("patientAccountNumber", 18)>>
      [] seg = PV1 ->
           <<FD("setId", 1), FD("patientClass", 2), FD("attendingDoctor", 7),
             FD("billingProviderPhone", 19), FD("providerAddress", 44)>>
      [] seg = PR1 ->
           <<FD("setId", 1), FD("procedureCode", 3),
             FD("procedureDescription", 4), FDT("procedureDate", 5),
             FD("providerName", 11)>>
      [] seg = IN1 ->
           <<FD("setId", 1), FD("insurancePlan", 2), FD("otherInsured", 3),
             FD("insuranceId", 4), FD("secondaryInsurancePlan", 5),
             FD("healthBenefitPlan", 6), FD("insuredName", 16),
             FDT("insuredDob", 18), FD("insuredAddress", 19),
             FD("insuredPhoneNumber", 20)>>

\* Math.max(...fields.map(f => f.index))
MaxIndex(fields) ==
    CHOOSE m \in {fields[k].index : k \in 1..Len(fields)} :
        \A k \in 1..Len(fields) : fields[k].index <= m

\* segmentFields[index] = value: the place, in the sequence that models the
\* array, of the JavaScript index
SlotOfIndex(index) == index + 1

\* Array(max + 1).fill('') and then segmentFields[index] = value per entry
SegmentFieldsTD(segmentData, fields) ==
    [slot \in 1..(MaxIndex(fields) + 1) |->
        IF \E k \in 1..Len(fields) : SlotOfIndex(fields[k].index) = slot
        THEN LET k == CHOOSE e \in 1..Len(fields) : SlotOfIndex(fields[e].index) = slot
                 value == IF fields[k].field \in DOMAIN segmentData
                          THEN segmentData[fields[k].field]
                          ELSE EmptyStr
             IN  IF fields[k].transform THEN formatDate(value) ELSE value
        ELSE EmptyStr]

RECURSIVE StandardSegmentsTD(_, _)
\* Object.entries(segmentDefinitions).forEach(...): a line only if (segmentData)
StandardSegmentsTD(obj, order) ==
    IF order = <<>> THEN <<>>
    ELSE (IF Head(order) \in DOMAIN obj
          THEN <<createSegment(Head(order),
                               SegmentFieldsTD(obj[Head(order)],
                                               segmentDefinitions(Head(order))))>>
          ELSE <<>>)
         \o StandardSegmentsTD(obj, Tail(order))

convertToHL7_TD(obj, keys) ==
    Join(StandardSegmentsTD(obj, segmentDefinitionsOrder)
            \o ObxSegments(obj, SortedObxKeys(obj, keys)),
         <<NewLine>>)

(***************************************************************************)
(* Table-driven decoder of src/unnamed/part_000:208-293                    *)
(***************************************************************************)
segmentFieldMappings(seg) ==
    CASE seg = MSH ->
           ("field1" :> "encodingCharacters" @@ "field2" :> "sendingApplication" @@
            "field3" :> "sendingFacility" @@ "field4" :> "receivingApplication" @@
            "field5" :> "receivingFacility" @@ "field6" :> "dateTime" @@
            "field8" :> "messageType" @@ "field9" :> "controlId" @@
            "field10" :> "processingId" @@ "field11" :> "versionId")
      [] seg = PID ->
           ("field1" :> "setId" @@ "field3" :> "patientId" @@
            "field5" :> "patientName" @@ "field7" :> "dob" @@
            "field8" :> "gender" @@ "field11" :> "address" @@
            "field13" :> "phoneNumber" @@ "field18" :> "patientAccountNumber")
      [] seg = PV1 ->
           ("field1" :> "setId" @@ "field2" :> "patientClass" @@
            "field7" :> "attendingDoctor" @@ "field19" :> "billingProviderPhone" @@
            "field44" :> "providerAddress")
      [] seg = PR1 ->
           ("field1" :> "setId" @@ "field3" :> "procedureCode" @@
            "field4" :> "procedureDescription" @@ "field5" :> "procedureDate" @@
            "field11" :> "providerName")
      [] seg = IN1 ->
           ("field1" :> "setId" @@ "field2" :> "insurancePlan" @@
            "field3" :> "otherInsured" @@ "field4" :> "insuranceId" @@
            "field5" :> "secondaryInsurancePlan" @@ "field6" :> "healthBenefitPlan" @@
            "field16" :> "insuredName" @@ "field18" :> "insuredDob" @@
            "field19" :> "insuredAddress" @@ "field20" :> "insuredPhoneNumber")
      [] seg = OBX ->
           ("field1" :> "setId" @@ "field2" :> "valueType" @@
            "field3" :> "observationIdentifier" @@ "field5" :> "observationValue" @@
            "field11" :> "observationStatus")
      [] OTHER -> EmptyObj      \* segmentFieldMappings[segmentType] || {}

\* mutant of FieldPositionTD: the array index is taken for the wire position
FieldPositionTDZeroBased(index) == index

\* index + 1: the wire position of the JavaScript index of the split fields
FieldPositionTD(index) == index + 1

\* mappings[`field${index + 1}`] || `field${index + 1}`
FieldNameTD(mappings, index) ==
    IF FieldKey(FieldPositionTD(index)) \in DOMAIN mappings
    THEN mappings[FieldKey(FieldPositionTD(index))]
    ELSE FieldKey(FieldPositionTD(index))

RECURSIVE SegmentDataTD(_, _, _, _)
\* fields.forEach((field, index) => segmentData[fieldKey] = field || ""),
\* from the JavaScript index `index` on
SegmentDataTD(mappings, fields, index, segmentData) ==
    IF index >= Len(fields) THEN segmentData
    ELSE SegmentDataTD(mappings, fields, index + 1,
                       Put(segmentData, FieldNameTD(mappings, index), fields[index + 1]))

\* mutant of SegmentKeyTD: every line is stored under its type token
SegmentKeyTDNoSuffix(segmentType, fields) == segmentType

\* the key under which a line is stored
SegmentKeyTD(segmentType, fields) ==
    IF segmentType = OBX /\ FieldAt(fields, 0) # EmptyStr
    THEN OBX \o fields[1]
    ELSE segmentType

\* mutant of DecodeLineTD: the fields of a line are added to the field map
\* already stored under its key
DecodeLineTDMerging(jsonOutput, line) ==
    LET parts == Split(line, Pipe)
        segmentType == Head(parts)
        fields == Tail(parts)
        key == SegmentKeyTD(segmentType, fields)
    IN  Put(jsonOutput, key,
            SegmentDataTD(segmentFieldMappings(segmentType), fields, 0,
                          IF key \in DOMAIN jsonOutput THEN jsonOutput[key] ELSE EmptyObj))

\* the body of the loop over the lines
DecodeLineTD(jsonOutput, line) ==
    LET parts == Split(line, Pipe)
        segmentType == Head(parts)
        fields == Tail(parts)
    IN  Put(jsonOutput, SegmentKeyTD(segmentType, fields),
            SegmentDataTD(segmentFieldMappings(segmentType), fields, 0, EmptyObj))

\* hl7.split("\n").filter(line => line.trim())
NonBlankLines(text) ==
    LET notBlank(line) == ~IsBlank(line)
    IN  SelectSeq(Split(text, NewLine), notBlank)

RECURSIVE DecodeLinesTD(_, _)
DecodeLinesTD(jsonOutput, lines) ==
    IF lines = <<>> THEN jsonOutput
    ELSE DecodeLinesTD(DecodeLineTD(jsonOutput, Head(lines)), Tail(lines))

convertHL7ToJson_TD(text) == DecodeLinesTD(EmptyObj, NonBlankLines(text))

(***************************************************************************)
(* Switch decoder of src/CMSConverter.tsx:222-308                          *)
(***************************************************************************)
\* the object literals of the switch: name -> JavaScript index of fields
switchFieldsCMS(seg) ==
    CASE seg = MSH ->
           ("encodingCharacters" :> 0 @@ "sendingApplication" :> 1 @@
            "sendingFacility" :> 2 @@ "receivingApplication" :> 3 @@
            "receivingFacility" :> 4 @@ "dateTime" :> 5 @@ "messageType" :> 7 @@
            "controlId" :> 8 @@ "processingId" :> 9 @@ "versionId" :> 10)
      [] seg = PID ->
           ("setId" :> 0 @@ "patientId" :> 2 @@ "patientName" :> 4 @@ "dob" :> 6 @@
            "gender" :> 7 @@ "address" :> 10 @@ "phoneNumber" :> 12 @@
            "patientAccountNumber" :> 17)
      [] seg = PV1 ->
           ("setId" :> 0 @@ "patientClass" :> 1 @@ "attendingDoctor" :> 6 @@
            "providerPhoneNumber" :> 18)
      [] seg = PR1 ->
           ("setId" :> 0 @@ "procedureCode" :> 2 @@ "procedureDescription" :> 3 @@
            "procedureDate" :> 4 @@ "providerName" :> 10)
      [] seg = IN1 ->
           ("setId" :> 0 @@ "insurancePlan" :> 1 @@ "otherInsured" :> 2 @@
            "insuranceId" :> 3 @@ "secondaryInsurancePlan" :> 4 @@
            "insuredName" :> 15 @@ "insuredDob" :> 17 @@ "insuredAddress" :> 18 @@
            "insuredPhoneNumber" :> 19)
      [] seg = OBX ->
           ("setId" :> 0 @@ "valueType" :> 1 @@ "observationIdentifier" :> 2 @@
            "observationValue" :> 4 @@ "observationStatus" :> 10)

KnownTypesCMS == {MSH, PID, PV1, PR1, IN1, OBX}

\* mutant of ObjectLiteral: the values go through formatDate
ObjectLiteralFormatted(table, fields) ==
    [name \in DOMAIN table |-> formatDate(FieldAt(fields, table[name]))]

\* { name: fields[i] || "", ... }
ObjectLiteral(table, fields) ==
    [name \in DOMAIN table |-> FieldAt(fields, table[name])]

\* fields.reduce((acc, field, index) => { acc[`field${index}`] = field; ... }, {})
DefaultFields(fields) ==
    [name \in {FieldKey(i - 1) : i \in 1..Len(fields)} |->
        fields[CHOOSE i \in 1..Len(fields) : FieldKey(i - 1) = name]]

\* `OBX${setId === '0' ? '' : setId}` with setId = fields[0] || "0"
ObxKeyCMS(fields) ==
    LET setId == IF FieldAt(fields, 0) # EmptyStr THEN fields[1] ELSE <<"0">>
    IN  OBX \o (IF setId = <<"0">> THEN EmptyStr ELSE setId)

DecodeLineCMS(jsonOutput, line) ==
    LET parts == Split(line, Pipe)
        segmentType == Head(parts)
        fields == Tail(parts)
        \* if (!jsonOutput[segmentType]) jsonOutput[segmentType] = {}
        started == IF segmentType \in DOMAIN jsonOutput
                   THEN jsonOutput
                   ELSE Put(jsonOutput, segmentType, EmptyObj)
    IN  IF segmentType = OBX
        THEN Put(started, ObxKeyCMS(fields), ObjectLiteral(switchFieldsCMS(OBX), fields))
        ELSE IF segmentType \in KnownTypesCMS
        THEN Put(started, segmentType, ObjectLiteral(switchFieldsCMS(segmentType), fields))
        ELSE Put(started, segmentType, DefaultFields(fields))

RECURSIVE DecodeLinesCMS(_, _)
DecodeLinesCMS(jsonOutput, lines) ==
    IF lines = <<>> THEN jsonOutput
    ELSE DecodeLinesCMS(DecodeLineCMS(jsonOutput, Head(lines)), Tail(lines))

convertHL7ToJson_CMS(text) == DecodeLinesCMS(EmptyObj, NonBlankLines(text))

(***************************************************************************)
(* Switch decoder of src/unnamed/part_000:964-1050                         *)
(***************************************************************************)
switchFieldsPDF(seg) ==
    CASE seg = MSH ->
           ("encodingCharacters" :> 0 @@ "sendingApplication" :> 1 @@
            "sendingFacility" :> 2 @@ "receivingApplication" :> 3 @@
            "receivingFacility" :> 4 @@ "dateTime" :> 5 @@ "messageType" :> 7 @@
            "controlId" :> 8 @@ "processingId" :> 9 @@ "versionId" :> 10)
      [] seg = PID ->
           ("setId" :> 0 @@ "patientId" :> 2 @@ "patientName" :> 4 @@ "dob" :> 6 @@
            "gender" :> 7 @@ "address" :> 10)
      [] seg = PV1 ->
           ("setId" :> 0 @@ "patientClass" :> 1 @@ "attendingDoctor" :> 7 @@
            "providerAddress" :> 9)
      [] seg = DG1 ->
           ("setId" :> 0 @@ "diagnosisCode" :> 2 @@ "diagnosisDescription" :> 3 @@
            "codingMethod" :> 4)
      [] seg = PR1 ->
           ("setId" :> 0 @@ "procedureCode" :> 2 @@ "procedureDescription" :> 3 @@
            "procedureDate" :> 4 @@ "providerName" :> 10)
      [] seg = IN1 ->
           ("setId" :> 0 @@ "insurancePlan" :> 2 @@ "insuranceId" :> 3 @@
            "insuredName" :> 15 @@ "insuredDob" :> 16 @@ "insuredAddress" :> 17)
      [] seg = OBX ->
           ("setId" :> 0 @@ "valueType" :> 1 @@ "observationIdentifier" :> 2 @@
            "observationValue" :> 4 @@ "observationStatus" :> 10)

KnownTypesPDF == {MSH, PID, PV1, DG1, PR1, IN1, OBX}

DecodeLinePDF(jsonOutput, line) ==
    LET parts == Split(line, Pipe)
        segmentType == Head(parts)
        fields == Tail(parts)
    IN  IF segmentType \in KnownTypesPDF
        THEN Put(jsonOutput, segmentType, ObjectLiteral(switchFieldsPDF(segmentType), fields))
        ELSE Put(jsonOutput, segmentType, DefaultFields(fields))

RECURSIVE DecodeLinesPDF(_, _)
DecodeLinesPDF(jsonOutput, lines) ==
    IF lines = <<>> THEN jsonOutput
    ELSE DecodeLinesPDF(DecodeLinePDF(jsonOutput, Head(lines)), Tail(lines))

\* no line is filtered out: const lines = hl7.split("\n")
convertHL7ToJson_PDF(text) == DecodeLinesPDF(EmptyObj, Split(text, NewLine))

(***************************************************************************)
(* Regular expressions, as String.prototype.match runs them: the leftmost  *)
(* match, alternatives in order, greedy quantifiers unless lazy.  Every    *)
(* expression of extractDataFromPDF has the i flag: a character of the     *)
(* text is compared in lower case with the lower-case members of a class.  *)
(* A pattern is a sequence of nodes:                                       *)
(*   "c" one character of the set s        "n" one character not in s      *)
(*   "a" the first alternative that leads to a match                       *)
(*   "r" min..max repetitions of body (max = Inf: unbounded)               *)
(*   "o", "x" the start and the end of capture group g                     *)
(***************************************************************************)
\* the characters of a TLA+ string, as a JavaScript string
Chars(str) == [i \in 1..Len(str) |-> SubSeq(str, i, i)]

UpperLetters == Chars("ABCDEFGHIJKLMNOPQRSTUVWXYZ")
LowerLetters == Chars("abcdefghijklmnopqrstuvwxyz")
Letters == {LowerLetters[i] : i \in 1..Len(LowerLetters)}
LowerOf == [c \in {UpperLetters[i] : i \in 1..Len(UpperLetters)} |->
               LowerLetters[CHOOSE i \in 1..Len(UpperLetters) : UpperLetters[i] = c]]

\* the canonical form of a character under the i flag
ToLower(c) == IF c \in DOMAIN LowerOf THEN LowerOf[c] ELSE c

Alnum == Letters \cup Digits
Inf == -1

Lit(str) == [i \in 1..Len(str) |-> [t |-> "c", s |-> {ToLower(SubSeq(str, i, i))}]]
Cls(S) == <<[t |-> "c", s |-> S]>>
NotCls(S) == <<[t |-> "n", s |-> S]>>
Alt(alts) == <<[t |-> "a", alts |-> alts]>>
Rep(body, min, max) == <<[t |-> "r", body |-> body, min |-> min, max |-> max, lazy |-> FALSE]>>
LazyRep(body, min, max) == <<[t |-> "r", body |-> body, min |-> min, max |-> max, lazy |-> TRUE]>>
Grp(g, body) == <<[t |-> "o", g |-> g]>> \o body \o <<[t |-> "x", g |-> g]>>

\* the same quantifier with one repetition done
OneDone(node) ==
    [node EXCEPT !.min = IF @ > 0 THEN @ - 1 ELSE 0,
                 !.max = IF @ = Inf THEN Inf ELSE @ - 1]

NoMatch == [ok |-> FALSE]

\* the character ch is one the node ("c" or "n") matches
CharMatches(node, ch) ==
    IF node.t = "c" THEN ToLower(ch) \in node.s ELSE ch \notin node.s

\* the least and the greatest member of a non-empty set of numbers
MinOf(S) == CHOOSE x \in S : \A y \in S : x <= y
MaxOf(S) == CHOOSE x \in S : \A y \in S : x >= y

\* the offsets below limit at which the node does not match the text
RunStops(text, pos, node, limit) ==
    {j \in 0..(limit - 1) : ~CharMatches(node, text[pos + j])}

\* the first of the offsets, limit when there is none
RunEnd(stops, limit) == IF stops = {} THEN limit ELSE MinOf(stops)

\* how many characters the text has from pos on, max at most
RunLimit(text, pos, max) ==
    IF max = Inf \/ max > Len(text) - pos + 1 THEN Len(text) - pos + 1 ELSE max

\* how many characters from pos on the node matches in a row, max at most
RunLength(text, pos, node, max) ==
    RunEnd(RunStops(text, pos, node, RunLimit(text, pos, max)), RunLimit(text, pos, max))

\* the body of a quantifier is one character node
SingleChar(body) == Len(body) = 1 /\ body[1].t \in {"c", "n"}

\* the match a, and the match b when a is none
OrElse(a, b) == IF a.ok THEN a ELSE b

RECURSIVE MatchAt(_, _, _, _)
RECURSIVE FirstAlt(_, _, _, _, _)
RECURSIVE RunEnds(_, _, _, _, _)
RECURSIVE MatchAfterRun(_, _, _, _, _, _)
\* the match of the node sequence at position pos of text, caps being the
\* capture groups so far (<<0, 0>>: undefined); no body of a quantifier of
\* these patterns can match the empty string.  A quantifier over one
\* character node takes the longest run the rest of the pattern accepts (the
\* shortest when lazy); any other quantifier tries one more repetition
\* before (after, when lazy) the rest of the pattern.
MatchAt(text, nodes, pos, caps) ==
    IF nodes = <<>> THEN [ok |-> TRUE, end |-> pos, caps |-> caps]
    ELSE LET node == Head(nodes)
             rest == Tail(nodes)
         IN  CASE node.t \in {"c", "n"} ->
                    IF pos <= Len(text) /\ CharMatches(node, text[pos])
                    THEN MatchAt(text, rest, pos + 1, caps)
                    ELSE NoMatch
               [] node.t = "o" ->
                    MatchAt(text, rest, pos, [caps EXCEPT ![node.g] = <<pos, 0>>])
               [] node.t = "x" ->
                    MatchAt(text, rest, pos, [caps EXCEPT ![node.g] = <<@[1], pos>>])
               [] node.t = "a" -> FirstAlt(text, node.alts, rest, pos, caps)
               [] node.t = "r" /\ SingleChar(node.body) ->
                    MatchAfterRun(text, rest, pos, caps, node.lazy,
                                  RunEnds(text, rest, pos, caps, node))
               [] node.t = "r" /\ ~SingleChar(node.body) ->
                    IF node.min > 0
                    THEN MatchAt(text, node.body \o <<OneDone(node)>> \o rest, pos, caps)
                    ELSE IF node.max = 0
                    THEN MatchAt(text, rest, pos, caps)
                    ELSE IF node.lazy
                    THEN OrElse(MatchAt(text, rest, pos, caps),
                                MatchAt(text, node.body \o <<OneDone(node)>> \o rest,
                                        pos, caps))
                    ELSE OrElse(MatchAt(text, node.body \o <<OneDone(node)>> \o rest,
                                        pos, caps),
                                MatchAt(text, rest, pos, caps))

FirstAlt(text, alts, rest, pos, caps) ==
    IF alts = <<>> THEN NoMatch
    ELSE OrElse(MatchAt(text, Head(alts) \o rest, pos, caps),
                FirstAlt(text, Tail(alts), rest, pos, caps))

\* the lengths of a run of the quantifier node after which the rest of the
\* pattern matches
RunEnds(text, rest, pos, caps, node) ==
    {k \in node.min..RunLength(text, pos, node.body[1], node.max) :
        MatchAt(text, rest, pos + k, caps).ok}

\* the match of the rest of the pattern after the longest (the shortest,
\* when lazy) of the runs
MatchAfterRun(text, rest, pos, caps, lazy, ends) ==
    IF ends = {} THEN NoMatch
    ELSE MatchAt(text, rest, pos + (IF lazy THEN MinOf(ends) ELSE MaxOf(ends)), caps)

\* the capture groups of an expression before a match
NoCaptures(regex) == [g \in 1..regex.groups |-> <<0, 0>>]

\* the positions of the text at which the expression matches
MatchStarts(text, regex) ==
    {i \in 1..(Len(text) + 1) : MatchAt(text, regex.nodes, i, NoCaptures(regex)).ok}

\* the match at the first of the positions; NoMatch models null
FirstMatch(text, regex, starts) ==
    IF starts = {} THEN NoMatch
    ELSE MatchAt(text, regex.nodes, MinOf(starts), NoCaptures(regex))

\* text.match(regex) without the g flag
StrMatch(text, regex) == FirstMatch(text, regex, MatchStarts(text, regex))


\* regex.test(text)
RegexTest(text, regex) == StrMatch(text, regex).ok

\* the value undefined
Undefined == <<"undefined">>

\* match[g]
Group(text, m, g) ==
    IF g \in DOMAIN m.caps /\ m.caps[g][2] > 0
    THEN SubSeq(text, m.caps[g][1], m.caps[g][2] - 1)
    ELSE Undefined

(***************************************************************************)
(* extractDataFromPDF: src/unnamed/part_000:788-938                        *)
(***************************************************************************)
RECURSIVE TrimStart(_)
TrimStart(s) == IF s # <<>> /\ Head(s) \in WhiteSpace THEN TrimStart(Tail(s)) ELSE s

RECURSIVE TrimEnd(_)
TrimEnd(s) ==
    IF s # <<>> /\ s[Len(s)] \in WhiteSpace THEN TrimEnd(SubSeq(s, 1, Len(s) - 1)) ELSE s

\* String.prototype.trim
Trim(s) == TrimEnd(TrimStart(s))

\* s.replace(/\s+/g, c): the first character of every run of white space
\* becomes c and the others of the run go
ReplaceWhiteSpaceRuns(s, c) ==
    LET kept(i) == s[i] \notin WhiteSpace \/ i = 1 \/ s[i - 1] \notin WhiteSpace
        places == SelectSeq([i \in 1..Len(s) |-> i], kept)
    IN  [j \in 1..Len(places) |->
            IF s[places[j]] \in WhiteSpace THEN c ELSE s[places[j]]]

\* the characters [^a-zA-Z0-9\s.,-/+] leaves alone: ,-/ is the range of
\* the four characters , - . /
AllowedChars ==
    Letters \cup {UpperLetters[i] : i \in 1..Len(UpperLetters)} \cup Digits
    \cup WhiteSpace \cup {".", ",", "-", "/", "+"}

\* s.replace(/[^a-zA-Z0-9\s.,-/+]/g, " ")
ReplaceDisallowed(s) == [i \in 1..Len(s) |-> IF s[i] \in AllowedChars THEN s[i] ELSE " "]

\* the text of one page: the items that are not blank, joined and trimmed,
\* and a space
PageText(items) ==
    LET notBlank(str) == ~IsBlank(str)
    IN  Trim(Join(SelectSeq(items, notBlank), <<" ">>)) \o <<" ">>

RECURSIVE AllText(_)
\* allText after the loop over the pages
AllText(pages) == IF pages = <<>> THEN EmptyStr ELSE PageText(Head(pages)) \o AllText(Tail(pages))

NormalizedText(allText) == Trim(ReplaceDisallowed(ReplaceWhiteSpaceRuns(allText, " ")))

MinTextLength == 50

\* /(patient|insured|dob|service|provider)/i
KeywordRegex ==
    [nodes |-> Grp(1, Alt(<<Lit("patient"), Lit("insured"), Lit("dob"), Lit("service"),
                            Lit("provider")>>)),
     groups |-> 1]

\* mutant of DocumentRejected: the keywords are not looked for
DocumentRejectedByLength(text) == Len(text) < MinTextLength

\* the condition of the throw of line 811
DocumentRejected(text) == Len(text) < MinTextLength \/ ~RegexTest(text, KeywordRegex)

\* \s*, \s+, \d, a word [A-Z][a-zA-Z]+ and the address of two patterns
S0 == Rep(Cls(WhiteSpace), 0, Inf)
S1 == Rep(Cls(WhiteSpace), 1, Inf)
D(n) == Rep(Cls(Digits), n, n)
Word == Cls(Letters) \o Rep(Cls(Letters), 1, Inf)
AddressPattern ==
    Rep(Cls(Digits), 1, Inf) \o S1 \o Rep(Cls(Letters \cup WhiteSpace), 1, Inf)
    \o Lit(",") \o S0 \o Rep(Cls(Letters), 2, 2) \o S0 \o D(5)
    \o Rep(Lit("-") \o D(4), 0, 1)
\* \d{5}|[A-Z]\d{2}(?:\.\d{0,2})?
CodePattern ==
    Alt(<<D(5), Cls(Letters) \o D(2) \o Rep(Lit(".") \o Rep(Cls(Digits), 0, 2), 0, 1)>>)

NoRegex == [nodes |-> <<>>, groups |-> 0]

\* the array fieldExtractors; fallback = NoRegex where the entry has none
fieldExtractors ==
    << [key |-> "patientName", required |-> TRUE,
        regex |-> [nodes |-> Alt(<<Lit("PATIENT") \o S0 \o Lit("NAME"),
                                   Lit("PATIENT") \o S0 \o Lit(":"),
                                   Lit("2.") \o S0>>)
                             \o Grp(1, Word \o Rep(Lit(",") \o S0 \o Word, 0, 1)
                                            \o Rep(S1 \o Word, 0, 1)),
                   groups |-> 1],
        fallback |-> [nodes |-> Grp(1, Alt(<<Lit("Davis") \o S1 \o Lit("John"),
                                             Lit("hood") \o S1 \o Lit("Michael")>>)),
                      groups |-> 1]],
       [key |-> "insuranceId", required |-> TRUE,
        regex |-> [nodes |-> Alt(<<Lit("INSURED") \o S0 \o Lit("ID"),
                                   Lit("ID") \o S0 \o Lit("NUMBER"),
                                   Lit("MEMBER") \o S0 \o Lit("ID"),
                                   Lit("1a.") \o S0>>)
                             \o Grp(1, Rep(Cls(Alnum), 5, 15)),
                   groups |-> 1],
        fallback |-> [nodes |-> Grp(1, Alt(<<Lit("234567"), Lit("123456")>>)),
                      groups |-> 1]],
       [key |-> "dob", required |-> FALSE,
        regex |-> [nodes |-> Alt(<<Lit("BIRTH"), Lit("DOB"), Lit("3.") \o S0>>)
                             \o Grp(1, D(2)) \o Cls(WhiteSpace \cup {"/", "-"})
                             \o Grp(2, D(2)) \o Cls(WhiteSpace \cup {"/", "-"})
                             \o Grp(3, D(4)),
                   groups |-> 3],
        fallback |-> [nodes |-> Grp(1, Lit("05") \o S0 \o Lit("16") \o S0
                                       \o Grp(2, Alt(<<Lit("1990"), Lit("2002")>>))),
                      groups |-> 2]],
       [key |-> "providerName", required |-> FALSE,
        regex |-> [nodes |-> Alt(<<Lit("PHYSICIAN"), Lit("PROVIDER"), Lit("RENDERING"),
                                   Lit("33.") \o S0, Lit("24J.") \o S0>>)
                             \o Rep(Lit("Dr") \o Rep(Lit("."), 0, 1) \o S0, 0, 1)
                             \o Grp(1, Word \o Rep(Lit(",") \o S0 \o Word, 0, 1)),
                   groups |-> 1],
        fallback |-> [nodes |-> Grp(1, Lit("Dr.") \o S0 \o Lit("IT") \o S1 \o Lit("Twilight")),
                      groups |-> 1]],
       [key |-> "serviceDate", required |-> TRUE,
        regex |-> [nodes |-> Alt(<<Lit("SERVICE") \o S0 \o Lit("DATE"),
                                   Lit("DATE") \o S0 \o Lit("OF") \o S0 \o Lit("SERVICE"),
                                   Lit("24A.") \o S0,
                                   <<>> >>)
                             \o Grp(1, D(2)) \o Cls({"/", "-"})
                             \o Grp(2, D(2)) \o Cls({"/", "-"})
                             \o Grp(3, D(4)),
                   groups |-> 3],
        fallback |-> [nodes |-> Grp(1, Lit("05/16/2025")), groups |-> 1]],
       [key |-> "patientAddress", required |-> FALSE,
        regex |-> [nodes |-> Alt(<<Lit("ADDRESS"), Lit("5.") \o S0>>)
                             \o Grp(1, AddressPattern),
                   groups |-> 1],
        fallback |-> [nodes |-> Grp(1, Lit("18240") \o S1 \o Lit("Midway") \o S1
                                       \o Lit("Road") \o S1 \o Lit("Dallas") \o S1
                                       \o Lit("TX") \o S1 \o Lit("75287")),
                      groups |-> 1]],
       [key |-> "diagnosis", required |-> TRUE,
        regex |-> [nodes |-> Alt(<<Lit("DIAGNOSIS"), Lit("21.") \o S0, <<>> >>)
                             \o Grp(1, CodePattern),
                   groups |-> 1],
        fallback |-> [nodes |-> Grp(1, Lit("90832")), groups |-> 1]],
       [key |-> "diagnosisDescription", required |-> FALSE,
        regex |-> [nodes |-> Lit("DIAGNOSIS") \o LazyRep(NotCls({NewLine, "\r"}), 0, Inf)
                             \o Cls(WhiteSpace) \o CodePattern \o S1
                             \o Grp(1, Cls(Letters \cup WhiteSpace \cup {","})
                                       \o Rep(NotCls(Digits), 0, Inf)),
                   groups |-> 1],
        fallback |-> NoRegex],
       [key |-> "procedureCode", required |-> FALSE,
        regex |-> [nodes |-> Alt(<<Lit("PROCEDURE"), Lit("24D.") \o S0>>) \o Grp(1, D(5)),
                   groups |-> 1],
        fallback |-> [nodes |-> Grp(1, Lit("90832")), groups |-> 1]],
       [key |-> "providerAddress", required |-> FALSE,
        regex |-> [nodes |-> Alt(<<Lit("BILLING") \o LazyRep(NotCls({NewLine, "\r"}), 0, Inf)
                                       \o S0 \o Lit("ADDRESS"),
                                   Lit("33.") \o S0>>)
                             \o Grp(1, AddressPattern),
                   groups |-> 1],
        fallback |-> [nodes |-> Grp(1, Lit("1720") \o S1 \o Lit("Oak") \o S1
                                       \o Lit("Village") \o S1 \o Lit("Boulevard") \o S1
                                       \o Lit("Suite") \o S1 \o Lit("200-B") \o S1
                                       \o Lit("Texas") \o S1 \o Lit("89787")),
                      groups |-> 1]],
       [key |-> "phoneNumber", required |-> FALSE,
        regex |-> [nodes |-> Alt(<<Lit("PHONE"), Lit("5.") \o S0, Lit("33.") \o S0>>)
                             \o Rep(Lit("+"), 0, 1)
                             \o Rep(Alt(<<Lit("1"), D(2)>>), 0, 1)
                             \o S0 \o Grp(1, Rep(Cls(Digits), 10, 12)),
                   groups |-> 1],
        fallback |-> [nodes |-> Grp(1, Alt(<<Lit("+1") \o S0 \o Lit("919347895935"),
                                             Lit("+1") \o S0 \o Lit("9010193577")>>)),
                      groups |-> 1]],
       [key |-> "insurancePlan", required |-> FALSE,
        regex |-> [nodes |-> Alt(<<Lit("INSURANCE") \o S0 \o Lit("PLAN"),
                                   Lit("1.") \o S0, Lit("11c.") \o S0>>)
                             \o Grp(1, Rep(Cls(Letters \cup WhiteSpace), 1, Inf)),
                   groups |-> 1],
        fallback |-> [nodes |-> Grp(1, Alt(<<Lit("AmeriHealth"),
                                             Lit("Affinity") \o S1 \o Lit("Health")
                                                 \o S1 \o Lit("Plan")>>)),
                      groups |-> 1]] >>

DateKeys == {"dob", "serviceDate"}
MinYear == 1900
MaxYear == 2025
RequiredQuorum == 4

\* the value NaN
NaN == -1

RECURSIVE DigitsValue(_, _)
\* the number the leading decimal digits of s spell after acc
DigitsValue(s, acc) ==
    IF s = <<>> \/ Head(s) \notin Digits THEN acc
    ELSE DigitsValue(Tail(s), 10 * acc + (CHOOSE d \in 0..9 : ToString(d) = Head(s)))

\* parseInt(s, 10) of undefined or of a string of digits and separators
ParseInt(s) ==
    IF s = Undefined \/ TrimStart(s) = <<>> \/ Head(TrimStart(s)) \notin Digits
    THEN NaN
    ELSE DigitsValue(TrimStart(s), 0)

\* parts[i] of a JavaScript array, undefined past its end
PartAt(parts, i) == IF i + 1 <= Len(parts) THEN parts[i + 1] ELSE Undefined

\* month, day and year out of dateParts (lines 899-901); thrown when
\* dateParts[1] is undefined and padStart is called on it
PaddedParts(dateParts) ==
    IF PartAt(dateParts, 1) = Undefined
    THEN [thrown |-> TRUE]
    ELSE [thrown |-> FALSE,
          month |-> padStart(dateParts[1], 2, "0"),
          day |-> padStart(dateParts[2], 2, "0"),
          year |-> PartAt(dateParts, 2)]

\* month, day and year of a date match (lines 892-902)
DatePartsOf(text, m) ==
    IF Group(text, m, 3) \notin {Undefined, EmptyStr}
    THEN [thrown |-> FALSE, month |-> Group(text, m, 1), day |-> Group(text, m, 2),
          year |-> Group(text, m, 3)]
    ELSE PaddedParts(Split(ReplaceWhiteSpaceRuns(Group(text, m, 1), "/"), "/"))

\* mutant of YearAccepted: every year is accepted
YearAcceptedAlways(parsedYear) == TRUE

\* parsedYear >= 1900 && parsedYear <= 2025
YearAccepted(parsedYear) == parsedYear >= MinYear /\ parsedYear <= MaxYear

\* the state of the loop before any extractor has run
ExtractStart ==
    [extractedData |-> EmptyObj, missingRequiredFields |-> <<>>,
     requiredFieldsFound |-> 0, thrown |-> FALSE]

\* the state of the loop with one more required field found, if e is one
Counted(e, st) ==
    IF e.required THEN [st EXCEPT !.requiredFieldsFound = @ + 1] ELSE st

\* lines 903-907: the date is stored and counted if its year is accepted
StoreDate(e, st, parts) ==
    IF parts.thrown THEN [st EXCEPT !.thrown = TRUE]
    ELSE IF YearAccepted(ParseInt(parts.year))
    THEN [Counted(e, st) EXCEPT
            !.extractedData = Put(@, e.key, parts.month \o <<"/">> \o parts.day
                                            \o <<"/">> \o parts.year)]
    ELSE st

\* lines 890-914: what the callback does with the match it has
StoreMatch(text, e, st, match) ==
    IF match.ok
    THEN IF e.key \in DateKeys
         THEN StoreDate(e, st, DatePartsOf(text, match))
         ELSE [Counted(e, st) EXCEPT
                 !.extractedData = Put(@, e.key, Trim(Group(text, match, 1)))]
    ELSE IF e.required
    THEN [st EXCEPT !.missingRequiredFields = Append(@, e.key)]
    ELSE st

\* lines 887-889: the fallback is tried when the pattern has no match
OrFallback(text, e, first) ==
    IF ~first.ok /\ e.fallback.groups > 0 THEN StrMatch(text, e.fallback) ELSE first

\* the callback of fieldExtractors.forEach applied to one entry
ExtractField(text, e, st) ==
    StoreMatch(text, e, st, OrFallback(text, e, StrMatch(text, e.regex)))

RECURSIVE ExtractFrom(_, _, _)
\* fieldExtractors.forEach from entry i on; an exception ends the loop
ExtractFrom(text, i, st) ==
    IF i > Len(fieldExtractors) \/ st.thrown THEN st
    ELSE ExtractFrom(text, i + 1, ExtractField(text, fieldExtractors[i], st))

\* the fields of a CMS1500Data
CMS1500DataFields ==
    {"patientName", "insuranceId", "diagnosis", "diagnosisDescription", "dob",
     "providerName", "serviceDate", "patientAddress", "procedureCode",
     "providerAddress", "phoneNumber", "insurancePlan"}

\* the defaults of lines 925-932, in the order of the statements
fieldDefaults ==
    << <<"dob", Chars("01/01/1900")>>,
       <<"providerName", Chars("Unknown Provider")>>,
       <<"patientAddress", Chars("Unknown Address")>>,
       <<"diagnosisDescription", Chars("Illness, unspecified")>>,
       <<"procedureCode", Chars("00000")>>,
       <<"providerAddress", Chars("Unknown Provider Address")>>,
       <<"phoneNumber", Chars("Unknown")>>,
       <<"insurancePlan", Chars("Unknown Plan")>> >>

RECURSIVE WithDefaultsWhenAbsent(_, _)
\* mutant of WithDefaults: a field that holds the empty string keeps it
WithDefaultsWhenAbsent(extracted, i) ==
    IF i > Len(fieldDefaults) THEN extracted
    ELSE LET key == fieldDefaults[i][1]
         IN  WithDefaultsWhenAbsent(IF key \notin DOMAIN extracted
                                    THEN Put(extracted, key, fieldDefaults[i][2])
                                    ELSE extracted,
                                    i + 1)

RECURSIVE WithDefaults(_, _)
\* if (!extractedData.key) extractedData.key = default, from entry i on
WithDefaults(extracted, i) ==
    IF i > Len(fieldDefaults) THEN extracted
    ELSE LET key == fieldDefaults[i][1]
         IN  WithDefaults(IF key \notin DOMAIN extracted \/ extracted[key] = EmptyStr
                          THEN Put(extracted, key, fieldDefaults[i][2])
                          ELSE extracted,
                          i + 1)

\* mutant of ExtractEnd: a record is returned with one required field short
ExtractEndOneShort(st) ==
    [outcome |-> IF st.thrown THEN "type_error"
                 ELSE IF st.requiredFieldsFound < RequiredQuorum - 1 THEN "insufficient"
                 ELSE "record",
     extractedData |-> IF ~st.thrown /\ st.requiredFieldsFound >= RequiredQuorum - 1
                       THEN WithDefaults(st.extractedData, 1)
                       ELSE st.extractedData,
     missingRequiredFields |-> st.missingRequiredFields,
     requiredFieldsFound |-> st.requiredFieldsFound]

\* lines 919-934: the quorum, the defaults and the return, st being the
\* state of the loop when it ends; the locals go with the outcome
ExtractEnd(st) ==
    [outcome |-> IF st.thrown THEN "type_error"
                 ELSE IF st.requiredFieldsFound < RequiredQuorum THEN "insufficient"
                 ELSE "record",
     extractedData |-> IF ~st.thrown /\ st.requiredFieldsFound >= RequiredQuorum
                       THEN WithDefaults(st.extractedData, 1)
                       ELSE st.extractedData,
     missingRequiredFields |-> st.missingRequiredFields,
     requiredFieldsFound |-> st.requiredFieldsFound]

\* extractDataFromPDF from normalizedText on: what it returns or throws
ExtractData(text) ==
    IF DocumentRejected(text)
    THEN [outcome |-> "no_valid_data", extractedData |-> EmptyObj,
          missingRequiredFields |-> <<>>, requiredFieldsFound |-> 0]
    ELSE ExtractEnd(ExtractFrom(text, 1, ExtractStart))

(***************************************************************************)
(* Bounded inputs                                                          *)
(***************************************************************************)
\* the sequences over S of length 0..n
RECURSIVE SeqsUpTo(_, _)
SeqsUpTo(S, n) ==
    IF n = 0 THEN {<<>>}
    ELSE LET shorter == SeqsUpTo(S, n - 1)
         IN  shorter \cup {Append(q, x) : q \in {r \in shorter : Len(r) = n - 1}, x \in S}

MaxGroupLen == 3      \* digits of the first and of the second group of a date input
MaxYearLen == 5       \* digits of the last group of a date input
MaxSegFields == 4     \* fields handed to createSegment
MaxSegs == 2          \* standard segments of an input record
MaxPop == 2           \* populated fields of an input record of standard segments
MaxObx == 2           \* keys of an input record of OBX instances
MaxLines == 2         \* lines of an input wire text
MaxWireFields == 2    \* fields of an input wire text, all lines together
MaxObxLines == 2      \* lines of an input wire text of OBX lines
MaxDatePos == 7       \* wire positions of an input line with one value

GroupDigits == {"1", "9"}
YearDigits == {"2"}
GenSeps == {EmptyStr, <<"-">>, <<"/">>, <<".">>}
GenTails == {EmptyStr, <<"x">>}

ZZZ == <<"Z", "Z", "Z">>      \* a segment type no table knows
SegNames == {MSH, ZZZ}
SegVals == {EmptyStr, <<"A">>, <<"B", "C">>}

\* the subsets of S with at most n elements
RECURSIVE SubsetsUpTo(_, _)
SubsetsUpTo(S, n) ==
    IF n = 0 THEN {{}}
    ELSE LET smaller == SubsetsUpTo(S, n - 1)
         IN  smaller \cup {q \cup {x} : q \in smaller, x \in S}

\* the sequences without repetition of all the elements of S
RECURSIVE Orderings(_)
Orderings(S) ==
    IF S = {} THEN {<<>>}
    ELSE UNION {{<<x>> \o q : q \in Orderings(S \ {x})} : x \in S}

StdSegs == {MSH, PID, PV1, PR1, IN1}

\* the field names either encoder looks up in a standard segment
StdFieldNames(seg) ==
    {hl7Mappings(seg)[k].path[2] :
        k \in {e \in 1..Len(hl7Mappings(seg)) : hl7Mappings(seg)[e].path # <<>>}}
    \cup {segmentDefinitions(seg)[k].field : k \in 1..Len(segmentDefinitions(seg))}

DateNames == {"dateTime", "dob", "procedureDate", "insuredDob"}
Date8 == <<"2", "0", "2", "5", "0", "5", "1", "6">>
DateMDY == <<"5", "/", "1", "6", "/", "2", "0", "2", "5">>
TextVal == <<"A">>
InputVals == {TextVal, Date8, DateMDY}

ValsFor(name) == IF name \in DateNames THEN {Date8, DateMDY} ELSE {TextVal}

OBX1 == OBX \o <<"1">>
OBX2 == OBX \o <<"2">>
ObxInputKeys == {OBX, OBX1, OBX2, MSH}
SetIdVals == {<<"1">>, <<"2">>, <<"1", "0">>}

\* the OBX instances of an input record: setId and observationValue, each
\* absent or present
ObxInstances ==
    {EmptyObj}
    \cup {("setId" :> i) : i \in SetIdVals}
    \cup {("observationValue" :> TextVal)}
    \cup {("setId" :> i @@ "observationValue" :> TextVal) : i \in SetIdVals}

WireTypes == {PID, OBX, ZZZ, EmptyStr, <<" ">>}
WireVals == {EmptyStr, <<"0">>, <<"1">>, <<"2">>}

\* the lists of n field lists that hold at most `budget` fields together
RECURSIVE FieldLists(_, _)
FieldLists(n, budget) ==
    IF n = 0 THEN {<<>>}
    ELSE UNION {{<<f>> \o rest : rest \in FieldLists(n - 1, budget - Len(f))} :
                    f \in SeqsUpTo(WireVals, budget)}

\* TYPE|field1|field2...
WireLine(type, fields) == Join(<<type>> \o fields, <<Pipe>>)

\* the fields of an input OBX line: none, a set-identifier, or a
\* set-identifier and a value type
ObxWireFields ==
    {<<>>}
    \cup {<<i>> : i \in WireVals}
    \cup {<<i, v>> : i \in WireVals, v \in {<<"A">>, <<"B">>}}

DateSlashed == <<"0", "5", "/", "1", "6", "/", "2", "0", "2", "5">>
DateStamp == <<"2", "0", "2", "5", "0", "5", "1", "6", "1", "2", "3", "0", "0", "0">>
DateWireTypes == {MSH, PID, PR1, ZZZ}
DateWireVals == {Date8, DateSlashed, DateStamp, TextVal}

\* the text items of an input PDF: a header, and the boxes of the form that
\* hold the name, the insurance id, the birth date, the date of service and
\* the diagnosis, each present in one of its forms or absent
HeaderItems ==
    {<<>>,
     <<Chars("PATIENT")>>,
     <<Chars("HEALTH INSURANCE CLAIM FORM APPROVED BY NATIONAL UNIFORM CLAIM COMMITTEE")>>,
     <<Chars("Patient: and (Insured)  information for the Service"), <<" ", "\t">>,
       Chars("Provider")>>}
NameItems == {<<>>, <<Chars("2. Davis John")>>, <<Chars("Davis John")>>}
IdItems == {<<>>, <<Chars("1a. ABCDEF")>>, <<Chars("1a. 234567")>>}
DobItems ==
    {<<>>, <<Chars("3. 05/16/1990")>>, <<Chars("3. 05/16/1890")>>,
     <<Chars("3. 05 16 1890")>>, <<Chars("05 16 1990")>>, <<Chars("05161990")>>}
ServiceItems ==
    {<<>>, <<Chars("24A. 05/16/2025")>>, <<Chars("24A. 05-16-2026")>>,
     <<Chars("24A. 05/16/1899")>>}
DiagnosisItems == {<<>>, <<Chars("21. J45.9")>>, <<Chars("21. 90832 Asthma")>>}

(***************************************************************************)
(* formatDate applied to a string, and again to its result                 *)
(***************************************************************************)
DateIdle ==
    /\ dateStr = EmptyStr
    /\ dateOut = EmptyStr
    /\ dateOut2 = EmptyStr
    /\ datePc = "idle"

DateInit ==
    /\ \E g1 \in SeqsUpTo(GroupDigits, MaxGroupLen),
          g2 \in SeqsUpTo(GroupDigits, MaxGroupLen),
          g3 \in SeqsUpTo(YearDigits, MaxYearLen),
          s1 \in GenSeps, s2 \in GenSeps, t \in GenTails :
            dateStr = g1 \o s1 \o g2 \o s2 \o g3 \o t
    /\ dateOut = EmptyStr
    /\ dateOut2 = EmptyStr
    /\ datePc = "in"

FormatDate ==
    /\ datePc = "in"
    /\ dateOut' = formatDate(dateStr)
    /\ dateOut2' = dateOut2
    /\ datePc' = "out"
    /\ UNCHANGED dateStr

FormatDateAgain ==
    /\ datePc = "out"
    /\ dateOut2' = formatDate(dateOut)
    /\ datePc' = "again"
    /\ UNCHANGED <<dateStr, dateOut>>

(***************************************************************************)
(* createSegment applied to a field list                                   *)
(***************************************************************************)
SegIdle ==
    /\ segName = EmptyStr
    /\ segFields = <<>>
    /\ segLine = EmptyStr
    /\ segPc = "idle"

SegInit ==
    /\ segName \in SegNames
    /\ segFields \in SeqsUpTo(SegVals, MaxSegFields)
    /\ segLine = EmptyStr
    /\ segPc = "in"

CreateSegment ==
    /\ segPc = "in"
    /\ segLine' = createSegment(segName, segFields)
    /\ segPc' = "out"
    /\ UNCHANGED <<segName, segFields>>

(***************************************************************************)
(* The codec: a record encoded and the wire text decoded                   *)
(***************************************************************************)
CodecIdle ==
    /\ variant = "none"
    /\ data = EmptyObj
    /\ keyOrder = <<>>
    /\ hl7 = EmptyStr
    /\ obxSorted = <<>>
    /\ json = EmptyObj
    /\ pc = "idle"

\* an input record of standard segments
StdRecordInit ==
    /\ variant \in {"CMS", "TD"}
    /\ \E segs \in SubsetsUpTo(StdSegs, MaxSegs) :
         \E slots \in SubsetsUpTo(UNION {{<<seg, name>> : name \in StdFieldNames(seg)} :
                                            seg \in segs}, MaxPop) :
           /\ \E value \in [slots -> InputVals] :
                /\ \A slot \in slots : value[slot] \in ValsFor(slot[2])
                /\ data = [seg \in segs |->
                             [name \in {n \in StdFieldNames(seg) : <<seg, n>> \in slots}
                                |-> value[<<seg, name>>]]]
           \* no key starts with "OBX": the order of the keys is never read
           /\ keyOrder = LET present(seg) == seg \in segs
                         IN  SelectSeq(hl7MappingsOrder, present)
    /\ hl7 = EmptyStr
    /\ obxSorted = <<>>
    /\ json = EmptyObj
    /\ pc = "json_in"

\* an input record of OBX instances (and possibly an empty MSH)
ObxRecordInit ==
    /\ variant \in {"CMS", "TD"}
    /\ \E keys \in SubsetsUpTo(ObxInputKeys, MaxObx) :
         /\ keyOrder \in Orderings(keys)
         /\ \E inst \in [keys -> ObxInstances] :
              /\ MSH \in keys => inst[MSH] = EmptyObj
              /\ data = inst
    /\ hl7 = EmptyStr
    /\ obxSorted = <<>>
    /\ json = EmptyObj
    /\ pc = "json_in"

\* an input wire text
WireInit ==
    /\ variant \in {"CMS", "TD", "PDF"}
    /\ data = EmptyObj
    /\ keyOrder = <<>>
    /\ \E n \in 0..MaxLines :
         \E types \in [1..n -> WireTypes] :
           \E fields \in FieldLists(n, MaxWireFields) :
             hl7 = Join([i \in 1..n |-> WireLine(types[i], fields[i])], <<NewLine>>)
    /\ obxSorted = <<>>
    /\ json = EmptyObj
    /\ pc = "hl7_in"

\* an input wire text of OBX lines
ObxWireInit ==
    /\ variant \in {"CMS", "TD", "PDF"}
    /\ data = EmptyObj
    /\ keyOrder = <<>>
    /\ \E n \in 1..MaxObxLines :
         \E fields \in [1..n -> ObxWireFields] :
           hl7 = Join([i \in 1..n |-> WireLine(OBX, fields[i])], <<NewLine>>)
    /\ obxSorted = <<>>
    /\ json = EmptyObj
    /\ pc = "hl7_in"

\* an input wire text of one line whose fields are empty but the last
DateWireInit ==
    /\ variant \in {"CMS", "TD", "PDF"}
    /\ data = EmptyObj
    /\ keyOrder = <<>>
    /\ \E type \in DateWireTypes, p \in 1..MaxDatePos, v \in DateWireVals :
         hl7 = WireLine(type, [n \in 1..p |-> IF n = p THEN v ELSE EmptyStr])
    /\ obxSorted = <<>>
    /\ json = EmptyObj
    /\ pc = "hl7_in"

\* convertToHL7 after JSON.parse
ConvertToHL7 ==
    /\ pc = "json_in"
    /\ hl7' = IF variant = "CMS"
              THEN convertToHL7_CMS(data, keyOrder)
              ELSE convertToHL7_TD(data, keyOrder)
    /\ obxSorted' = SortedObxKeys(data, keyOrder)
    /\ pc' = "encoded"
    /\ UNCHANGED <<variant, data, keyOrder, json>>

\* convertHL7ToJson
ConvertHL7ToJson ==
    /\ pc \in {"encoded", "hl7_in"}
    /\ json' = CASE variant = "CMS" -> convertHL7ToJson_CMS(hl7)
                 [] variant = "TD" -> convertHL7ToJson_TD(hl7)
                 [] variant = "PDF" -> convertHL7ToJson_PDF(hl7)
    /\ pc' = "decoded"
    /\ UNCHANGED <<variant, data, keyOrder, hl7, obxSorted>>

(***************************************************************************)
(* extractDataFromPDF applied to the text items of a PDF                   *)
(***************************************************************************)
ExtractIdle ==
    /\ pdfReadable = FALSE
    /\ pdfPages = <<>>
    /\ normalizedText = EmptyStr
    /\ extractedData = EmptyObj
    /\ missingRequiredFields = <<>>
    /\ requiredFieldsFound = 0
    /\ extractOutcome = "none"
    /\ extractPc = "idle"

\* a PDF that pdf.js cannot read, or one whose header is the first page and
\* whose boxes are the second
ExtractInit ==
    /\ pdfReadable \in BOOLEAN
    /\ IF pdfReadable
       THEN \E h \in HeaderItems, n \in NameItems, i \in IdItems, d \in DobItems,
               s \in ServiceItems, g \in DiagnosisItems :
                pdfPages = IF h = <<>> THEN <<n \o i \o d \o s \o g>>
                           ELSE <<h, n \o i \o d \o s \o g>>
       ELSE pdfPages = <<>>
    /\ normalizedText = EmptyStr
    /\ extractedData = EmptyObj
    /\ missingRequiredFields = <<>>
    /\ requiredFieldsFound = 0
    /\ extractOutcome = "none"
    /\ extractPc = "pdf"

\* extractDataFromPDF: the outcome, and the locals at the return or throw
ExtractDataFromPDF ==
    /\ extractPc = "pdf"
    /\ IF pdfReadable
       THEN \E text \in {NormalizedText(AllText(pdfPages))} :
              \E r \in {ExtractData(text)} :
                /\ normalizedText' = text
                /\ extractedData' = r.extractedData
                /\ missingRequiredFields' = r.missingRequiredFields
                /\ requiredFieldsFound' = r.requiredFieldsFound
                /\ extractOutcome' = r.outcome
       ELSE /\ extractOutcome' = "load_error"
            /\ UNCHANGED <<normalizedText, extractedData, missingRequiredFields,
                           requiredFieldsFound>>
    /\ extractPc' = "done"
    /\ UNCHANGED <<pdfReadable, pdfPages>>

(***************************************************************************)
(* Two overlapping invocations of convertToHL7, which share jsonDataRef    *)
(* (src/CMSConverter.tsx:170-220, src/unnamed/part_000:100-205).  The only *)
(* await of convertToHL7 is file.text(): the assignment to                 *)
(* jsonDataRef.current and every read of it run in the one turn of the     *)
(* event loop that follows the read.                                       *)
(***************************************************************************)
\* useRef<any>({})
RefInit == [current |-> EmptyObj, keys |-> <<>>]

\* the input files: one that JSON.parse rejects, and records
ConcFiles ==
    {[ok |-> FALSE, data |-> EmptyObj, keys |-> <<>>],
     [ok |-> TRUE, data |-> EmptyObj, keys |-> <<>>],
     [ok |-> TRUE, data |-> (PID :> ("patientName" :> TextVal)), keys |-> <<PID>>],
     [ok |-> TRUE,
      data |-> (PID :> ("patientName" :> <<"B">>)
                @@ OBX1 :> ("setId" :> <<"1">> @@ "observationValue" :> TextVal)),
      keys |-> <<PID, OBX1>>],
     [ok |-> TRUE,
      data |-> (OBX2 :> ("setId" :> <<"2">>) @@ OBX1 :> ("setId" :> <<"1">>)),
      keys |-> <<OBX2, OBX1>>]}

Invocations == {1, 2}

\* mutant of StoreParsed: the record is stored only while the ref is empty
StoreParsedOnce(ref, file) ==
    IF ref.current = EmptyObj THEN [current |-> file.data, keys |-> file.keys] ELSE ref

\* jsonDataRef.current = JSON.parse(text)
StoreParsed(ref, file) == [current |-> file.data, keys |-> file.keys]

\* the rest of convertToHL7: the segments built from jsonDataRef.current
EncodeFromRef(v, ref) ==
    IF v = "CMS"
    THEN convertToHL7_CMS(ref.current, ref.keys)
    ELSE convertToHL7_TD(ref.current, ref.keys)

NoResult == [thrown |-> FALSE, hl7 |-> EmptyStr]

ConcIdle ==
    /\ convVariant = "none"
    /\ convFiles = <<>>
    /\ convPc = <<>>
    /\ jsonDataRef = RefInit
    /\ convResult = <<>>
    /\ convLog = <<>>

\* two invocations to come, on different files
ConcInit ==
    /\ convVariant \in {"CMS", "TD"}
    /\ convFiles \in {f \in [Invocations -> ConcFiles] : f[1] # f[2]}
    /\ convPc = [i \in Invocations |-> "idle"]
    /\ jsonDataRef = RefInit
    /\ convResult = [i \in Invocations |-> NoResult]
    /\ convLog = <<>>

\* convertToHL7(file) is called and suspends at await file.text()
CallConvertToHL7(i) ==
    /\ convPc[i] = "idle"
    /\ convPc' = [convPc EXCEPT ![i] = "reading"]
    /\ convLog' = Append(convLog, <<"call", i>>)
    /\ UNCHANGED <<convVariant, convFiles, jsonDataRef, convResult>>

\* the read settles and convertToHL7 runs to its return or throw
ReadSettles(i) ==
    /\ convPc[i] = "reading"
    /\ IF convFiles[i].ok
       THEN /\ jsonDataRef' = StoreParsed(jsonDataRef, convFiles[i])
            /\ convResult' = [convResult EXCEPT
                                ![i] = [thrown |-> FALSE,
                                        hl7 |-> EncodeFromRef(convVariant, jsonDataRef')]]
       ELSE /\ convResult' = [convResult EXCEPT ![i] = [thrown |-> TRUE, hl7 |-> EmptyStr]]
            /\ UNCHANGED jsonDataRef
    /\ convPc' = [convPc EXCEPT ![i] = "returned"]
    /\ convLog' = Append(convLog, <<"settle", i>>)
    /\ UNCHANGED <<convVariant, convFiles>>

(***************************************************************************)
(* The encoders applied twice to one record, at two instants               *)
(***************************************************************************)
\* the string thrown for a TypeError
Thrown == <<"TypeError">>

\* `${x}` of a string or of undefined
Interpolated(x) == IF x = Undefined THEN Chars("undefined") ELSE x

\* formatDate inside convertToHL7 of src/unnamed/part_000:941-945
formatDatePDF(str) ==
    LET parts == Split(str, "/")
        month == PartAt(parts, 0)
        day == PartAt(parts, 1)
        year == PartAt(parts, 2)
    IN  IF day = Undefined THEN Thrown
        ELSE LET formatted == Interpolated(year) \o padStart(month, 2, "0")
                                  \o padStart(day, 2, "0")
             IN  IF Len(formatted) = 8 /\ AllDigits(formatted)
                 THEN formatted
                 ELSE Chars("20250101")

\* data.diagnosis.match(/^[A-Z]/) ? "ICD10" : "CPT4"
CodingSystem(diagnosis) ==
    IF diagnosis # EmptyStr
       /\ Head(diagnosis) \in {UpperLetters[i] : i \in 1..Len(UpperLetters)}
    THEN Chars("ICD10")
    ELSE Chars("CPT4")

\* `${data.key}`: the text of the field, "undefined" when it is absent
T(d, key) == Interpolated(IF key \in DOMAIN d THEN d[key] ELSE Undefined)

\* formatDate(data.key); dateStr.split throws when the field is absent
FormatDateOf(d, key) == IF key \in DOMAIN d THEN formatDatePDF(d[key]) ELSE Thrown

\* the segments of convertToHL7(data: CMS1500Data), src/unnamed/part_000:947-957
TemplateSegments(d) ==
    << Chars("MSH|^~\\&|CMS1500App|XYZ|HL7Receiver|XYZFacility|")
           \o FormatDateOf(d, "serviceDate") \o Chars("||ORU^R01|") \o T(d, "insuranceId")
           \o Chars("|P|2.5.1"),
       Chars("PID|1||") \o T(d, "insuranceId") \o Chars("^^^MR||") \o T(d, "patientName")
           \o Chars("||") \o FormatDateOf(d, "dob") \o Chars("|M|||")
           \o T(d, "patientAddress") \o Chars("^^^^") \o T(d, "phoneNumber")
           \o Chars("|||||||"),
       Chars("PV1|1|O||||||") \o T(d, "providerName") \o Chars("^^^^^^MD|||")
           \o T(d, "providerAddress") \o Chars("||||||||||||||||||||||||||||||"),
       Chars("DG1|1||") \o T(d, "diagnosis") \o Chars("^") \o T(d, "diagnosisDescription")
           \o Chars("^") \o CodingSystem(d["diagnosis"]) \o Chars("|||||||||||||"),
       Chars("PR1|1||") \o T(d, "procedureCode") \o Chars("^ min^CPT4|||")
           \o FormatDateOf(d, "serviceDate") \o Chars("||||||") \o T(d, "providerName")
           \o Chars("^^^^^^MD||||"),
       Chars("IN1|1||") \o T(d, "insurancePlan") \o Chars("|||") \o T(d, "insuranceId")
           \o Chars("||||||||||||||||||||") \o T(d, "patientName") \o Chars("|||")
           \o FormatDateOf(d, "dob") \o Chars("|") \o T(d, "patientAddress")
           \o Chars("^^^^") \o T(d, "phoneNumber"),
       Chars("OBX|1|ST|ServiceDate||") \o FormatDateOf(d, "serviceDate")
           \o Chars("||||||F|||||") >>

\* convertToHL7(data: CMS1500Data) of src/unnamed/part_000:940-962; a
\* TypeError (formatDate of an absent or one-part date, match of an absent
\* diagnosis) leaves it
convertToHL7_PDF(d) ==
    IF \/ Thrown \in {FormatDateOf(d, "serviceDate"), FormatDateOf(d, "dob")}
       \/ "diagnosis" \notin DOMAIN d
    THEN Thrown
    ELSE Join(TemplateSegments(d), <<NewLine>>)

\* the instant the clock counts from: new Date() at clock 0
BaseInstant == Chars("2025-05-16T00:00:00")

\* new Date().toISOString() within a second of BaseInstant
toISOString(ms) ==
    BaseInstant \o <<".">> \o padStart(Chars(ToString(ms % 1000)), 3, "0") \o <<"Z">>

\* data.key || ""
OrEmpty(d, key) == IF key \in DOMAIN d THEN d[key] ELSE EmptyStr

\* data.sex?.charAt(0) || ""
FirstCharOf(d, key) ==
    IF key \in DOMAIN d /\ d[key] # EmptyStr THEN <<Head(d[key])>> ELSE EmptyStr

\* toHl7Format of src/fixed_converter.tsx:18-26, called at clock ms
toHl7Format(d, ms) ==
    Join(<< Chars("MSH|^~\\&|CMS1500App|Hospital|HL7Receiver|HL7Facility|")
                \o toISOString(ms) \o Chars("||ADT^A01|MSG00001|P|2.5"),
            Chars("PID|||") \o OrEmpty(d, "insurance_id") \o Chars("||")
                \o OrEmpty(d, "pt_name") \o Chars("||") \o OrEmpty(d, "birth_yy")
                \o OrEmpty(d, "birth_mm") \o OrEmpty(d, "birth_dd") \o Chars("|")
                \o FirstCharOf(d, "sex") \o Chars("|||") \o OrEmpty(d, "pt_city")
                \o Chars("^") \o OrEmpty(d, "pt_state"),
            Chars("IN1|||") \o OrEmpty(d, "insurance_name") \o Chars("||")
                \o OrEmpty(d, "insurance_id"),
            Chars("PV1||O|Clinic||||") \o OrEmpty(d, "physician_signature")
                \o Chars("|||||||||||") \o OrEmpty(d, "physician_date") >>,
         <<NewLine>>)

\* the greatest value of the clock
MaxClock == 2

\* records given to the template encoder
TemplateInputs ==
    {[key \in CMS1500DataFields |->
        CASE key = "serviceDate" -> sd
          [] key = "dob" -> Chars("01/01/1900")
          [] key = "diagnosis" -> dg
          [] OTHER -> TextVal] :
        sd \in {Chars("05/16/2025"), Chars("5/16"), Chars("0516")},
        dg \in {Chars("J45.9"), Chars("90832")}}

\* records given to toHl7Format
FixedInputs ==
    {EmptyObj,
     ("pt_name" :> Chars("Davis John")),
     ("pt_name" :> Chars("Davis John") @@ "sex" :> Chars("Male")
        @@ "birth_yy" :> Chars("1990") @@ "birth_mm" :> Chars("05")
        @@ "birth_dd" :> Chars("16") @@ "insurance_id" :> Chars("234567"))}

DetIdle ==
    /\ detEncoder = "none"
    /\ detInput = EmptyObj
    /\ now = 0
    /\ detOut = <<>>
    /\ detTimes = <<>>

DetInit ==
    /\ detEncoder \in {"CMS", "PDF", "FIXED"}
    /\ detInput \in CASE detEncoder = "CMS" -> {f \in ConcFiles : f.ok}
                     [] detEncoder = "PDF" -> TemplateInputs
                     [] detEncoder = "FIXED" -> FixedInputs
    /\ now = 0
    /\ detOut = <<>>
    /\ detTimes = <<>>

\* time passes
ClockTick ==
    /\ now < MaxClock
    /\ now' = now + 1
    /\ UNCHANGED <<detEncoder, detInput, detOut, detTimes>>

\* the encoder is applied to the record
Encode ==
    /\ detEncoder # "none"
    /\ Len(detOut) < 2
    /\ detOut' = Append(detOut,
                        CASE detEncoder = "CMS" ->
                               convertToHL7_CMS(detInput.data, detInput.keys)
                          [] detEncoder = "PDF" -> convertToHL7_PDF(detInput)
                          [] detEncoder = "FIXED" -> toHl7Format(detInput, now))
    /\ detTimes' = Append(detTimes, now)
    /\ UNCHANGED <<detEncoder, detInput, now>>

(***************************************************************************)
(* extractDataFromJson (src/unnamed/part_000:1099-1140) applied to a       *)
(* parsed JSON record, and the record it returns encoded                   *)
(***************************************************************************)
\* String.prototype.slice(a, b) for 0 <= a <= b
Slice(str, a, b) ==
    IF a >= Len(str) THEN EmptyStr
    ELSE SubSeq(str, a + 1, IF b <= Len(str) THEN b ELSE Len(str))

\* seg.name || fallback
FieldOr(seg, name, fallback) ==
    IF name \in DOMAIN seg /\ seg[name] # EmptyStr THEN seg[name] ELSE fallback

\* seg.name?.split("^")[n] || fallback
ComponentOr(seg, name, n, fallback) ==
    IF name \notin DOMAIN seg \/ PartAt(Split(seg[name], "^"), n) \in {Undefined, EmptyStr}
    THEN fallback
    ELSE PartAt(Split(seg[name], "^"), n)

\* seg.name ? `${slice(4, 6)}/${slice(6, 8)}/${slice(0, 4)}` : fallback
DateOr(seg, name, fallback) ==
    IF name \in DOMAIN seg /\ seg[name] # EmptyStr
    THEN Slice(seg[name], 4, 6) \o <<"/">> \o Slice(seg[name], 6, 8) \o <<"/">>
             \o Slice(seg[name], 0, 4)
    ELSE fallback

\* the fields set from json.PID (lines 1109-1115)
FromPID(seg) ==
    "patientName" :> FieldOr(seg, "patientName", Chars("Unknown Patient"))
    @@ "insuranceId" :> ComponentOr(seg, "patientId", 0, Chars("Unknown ID"))
    @@ "dob" :> DateOr(seg, "dob", Chars("01/01/1900"))
    @@ "patientAddress" :> ComponentOr(seg, "address", 0, Chars("Unknown Address"))
    @@ "phoneNumber" :> ComponentOr(seg, "address", 4, Chars("Unknown"))

\* lines 1116-1119
FromPV1(seg) ==
    "providerName" :> ComponentOr(seg, "attendingDoctor", 0, Chars("Unknown Provider"))
    @@ "providerAddress" :>
           ComponentOr(seg, "providerAddress", 0, Chars("Unknown Provider Address"))

\* lines 1120-1123
FromDG1(seg) ==
    "diagnosis" :> FieldOr(seg, "diagnosisCode", Chars("00000"))
    @@ "diagnosisDescription" :>
           FieldOr(seg, "diagnosisDescription", Chars("Illness, unspecified"))

\* lines 1124-1127
FromPR1(seg) ==
    "procedureCode" :> ComponentOr(seg, "procedureCode", 0, Chars("00000"))
    @@ "serviceDate" :> DateOr(seg, "procedureDate", Chars("01/01/2025"))

\* lines 1128-1130
FromIN1(seg) ==
    "insurancePlan" :> FieldOr(seg, "insurancePlan", Chars("Unknown Plan"))

\* if (json.SEG) { ... }: the fields a segment sets, none when it is absent
FromSegment(record, seg) ==
    IF seg \notin DOMAIN record THEN EmptyObj
    ELSE CASE seg = PID -> FromPID(record[seg])
           [] seg = PV1 -> FromPV1(record[seg])
           [] seg = DG1 -> FromDG1(record[seg])
           [] seg = PR1 -> FromPR1(record[seg])
           [] seg = IN1 -> FromIN1(record[seg])

\* the required fields checked at line 1132
RequiredOfJson == {"insuranceId", "patientName", "diagnosis", "serviceDate"}

\* data.key is falsy
Falsy(d, key) == key \notin DOMAIN d \/ d[key] = EmptyStr

\* extractDataFromJson after JSON.parse: the outcome and the record built
extractDataFromJson(record) ==
    IF MSH \notin DOMAIN record \/ PID \notin DOMAIN record
    THEN [outcome |-> "invalid", data |-> EmptyObj]
    ELSE LET d == FromSegment(record, PID) @@ FromSegment(record, PV1)
                    @@ FromSegment(record, DG1)
                    @@ FromSegment(record, PR1)
                    @@ FromSegment(record, IN1)
         IN  [outcome |-> IF \E key \in RequiredOfJson : Falsy(d, key)
                          THEN "insufficient" ELSE "record",
              data |-> d]

\* the segments a JSON file may hold, and the fields of each when filled
JsonSegments == {MSH, PID, PV1, DG1, PR1, IN1}

FilledSegment(seg) ==
    CASE seg = PID -> ("patientName" :> Chars("Davis John")
                       @@ "patientId" :> Chars("234567^^^MR")
                       @@ "dob" :> Chars("19900516")
                       @@ "address" :> Chars("1 Main^^^^5551234"))
      [] seg = PV1 -> ("attendingDoctor" :> Chars("Smith^^^^^^MD")
                       @@ "providerAddress" :> Chars("2 Oak"))
      [] seg = DG1 -> ("diagnosisCode" :> Chars("J45.9")
                       @@ "diagnosisDescription" :> Chars("Asthma"))
      [] seg = PR1 -> ("procedureCode" :> Chars("90832^ min^CPT4")
                       @@ "procedureDate" :> Chars("20250516"))
      [] seg = IN1 -> ("insurancePlan" :> Chars("Plan"))
      [] OTHER -> EmptyObj

FromJsonIdle ==
    /\ jsonRecord = EmptyObj
    /\ jsonFields = EmptyObj
    /\ jsonOutcome = "none"
    /\ jsonWire = EmptyStr
    /\ jsonPc = "idle"

\* a JSON record with any of the segments, each empty or filled
FromJsonInit ==
    /\ \E segs \in SUBSET JsonSegments, filled \in BOOLEAN :
         jsonRecord = [seg \in segs |-> IF filled THEN FilledSegment(seg) ELSE EmptyObj]
    /\ jsonFields = EmptyObj
    /\ jsonOutcome = "none"
    /\ jsonWire = EmptyStr
    /\ jsonPc = "json"

ExtractDataFromJson ==
    /\ jsonPc = "json"
    /\ \E r \in {extractDataFromJson(jsonRecord)} :
         /\ jsonFields' = r.data
         /\ jsonOutcome' = r.outcome
    /\ jsonPc' = "extracted"
    /\ UNCHANGED <<jsonRecord, jsonWire>>

\* handleConvertFromJson: convertToHL7(extractedData) of the record returned
ConvertExtracted ==
    /\ jsonPc = "extracted"
    /\ jsonOutcome = "record"
    /\ jsonWire' = convertToHL7_PDF(jsonFields)
    /\ jsonPc' = "encoded"
    /\ UNCHANGED <<jsonRecord, jsonFields, jsonOutcome>>

(***************************************************************************)
(* The components on screen.  Each event handler runs to its first await   *)
(* or to its end in one turn; a handler suspended at an await is in        *)
(* inFlight until what it awaits settles.                                  *)
(***************************************************************************)
\* null, for a File | null
NoFile == [kind |-> "none"]

\* null, for an HL7Json | null, and a record shown
NullJson == [shown |-> FALSE, value |-> EmptyObj]
Shown(record) == [shown |-> TRUE, value |-> record]

Zones == {"pdf", "hl7", "json"}

\* the greatest number of conversions requested
MaxRequests == 2

\* the PDF files: a filled form and a file pdf.js cannot read
PdfFiles ==
    {[kind |-> "pdf", name |-> "claim.pdf", readable |-> TRUE,
      pages |-> << <<Chars("Patient: and (Insured)  information for the Service"),
                     Chars("Provider")>>,
                   <<Chars("2. Davis John"), Chars("1a. ABCDEF"), Chars("3. 05/16/1990"),
                     Chars("24A. 05/16/2025"), Chars("21. J45.9")>> >>],
     [kind |-> "pdf", name |-> "scan.pdf", readable |-> FALSE, pages |-> <<>>]}

\* the HL7 files: a message, and a file whose read fails
Hl7Files ==
    {[kind |-> "hl7", name |-> "message.hl7", readable |-> TRUE,
      text |-> Chars("PID|1||234567")],
     [kind |-> "hl7", name |-> "gone.txt", readable |-> FALSE, text |-> EmptyStr]}

\* what the user leaves in the text area: nothing, blanks, a message
TypedTexts == {EmptyStr, Chars("  "), Chars("PV1|1|O")}

\* the JSON files of the three-input converter: a record with all the
\* segments, and one without PID
ThreeJsonFiles ==
    {[kind |-> "json", name |-> "record.json", ok |-> TRUE,
      data |-> [seg \in JsonSegments |-> FilledSegment(seg)], keys |-> <<>>],
     [kind |-> "json", name |-> "partial.json", ok |-> TRUE,
      data |-> (MSH :> EmptyObj), keys |-> <<MSH>>]}

\* the JSON files of the other two components
CodecJsonFiles ==
    {[kind |-> "json", name |-> "record.json", ok |-> TRUE,
      data |-> (PID :> ("patientName" :> TextVal)), keys |-> <<PID>>],
     [kind |-> "json", name |-> "broken.json", ok |-> FALSE, data |-> EmptyObj,
      keys |-> <<>>]}

FilesFor(comp, zone) ==
    CASE zone = "pdf" -> IF comp = "Three" THEN PdfFiles ELSE {}
      [] zone = "hl7" -> IF comp = "CMS" THEN {} ELSE Hl7Files
      [] zone = "json" -> IF comp = "Three" THEN ThreeJsonFiles ELSE CodecJsonFiles

UiIdle ==
    /\ component = "none"
    /\ pdfFile = NoFile /\ hl7File = NoFile /\ jsonFile = NoFile
    /\ hl7TextInput = EmptyStr
    /\ hl7Content = EmptyStr
    /\ jsonContent = NullJson
    /\ isLoading = FALSE
    /\ error = ""
    /\ inFlight = {}
    /\ requests = 0
    /\ lastAccepted = NoFile
    /\ clicked = [file |-> NoFile, accepted |-> NoFile]
    /\ errorFrom = 0
    /\ resultFrom = 0

\* the component after its first render
UiInit(comp) ==
    /\ component = comp
    /\ pdfFile = NoFile /\ hl7File = NoFile /\ jsonFile = NoFile
    /\ hl7TextInput = EmptyStr
    /\ hl7Content = EmptyStr
    /\ jsonContent = NullJson
    /\ isLoading = FALSE
    /\ error = ""
    /\ inFlight = {}
    /\ requests = 0
    /\ lastAccepted = NoFile
    /\ clicked = [file |-> NoFile, accepted |-> NoFile]
    /\ errorFrom = 0
    /\ resultFrom = 0

(***************************************************************************)
(* CMS1500ToHL7Converter (src/unnamed/part_000:681-1424)                   *)
(***************************************************************************)
\* mutant of ClearedByAccept: an accepted drop leaves the other files
ClearedByAcceptNone(zone) == {}

\* the files an accepted drop on a zone sets to null
ClearedByAccept(zone) == Zones \ {zone}

\* the file of a zone after an accepted drop of `file` on `zone`
FileAfterAccept(zone, file, z, current) ==
    IF z = zone THEN file
    ELSE IF z \in ClearedByAccept(zone) THEN NoFile
    ELSE current

RejectionMessage(zone) ==
    CASE zone = "pdf" -> "Only PDF files are supported. Please upload a valid CMS-1500 PDF."
      [] zone = "hl7" ->
           "Only HL7 text files are supported. Please upload a valid .hl7 or .txt file."
      [] zone = "json" -> "Only JSON files are supported. Please upload a valid .json file."

\* onDrop with an accepted file whose name has the extension of the zone
ThreeDropAccepted(zone, file) ==
    /\ component = "Three"
    /\ error' = ""
    /\ pdfFile' = FileAfterAccept(zone, file, "pdf", pdfFile)
    /\ hl7File' = FileAfterAccept(zone, file, "hl7", hl7File)
    /\ jsonFile' = FileAfterAccept(zone, file, "json", jsonFile)
    /\ hl7Content' = EmptyStr
    /\ jsonContent' = NullJson
    /\ lastAccepted' = file
    /\ errorFrom' = 0
    /\ resultFrom' = 0
    /\ UNCHANGED <<component, hl7TextInput, isLoading, inFlight, requests, clicked>>

\* onDrop with a rejection, or with a file whose name lacks the extension
ThreeDropRejected(zone) ==
    /\ component = "Three"
    /\ error' = RejectionMessage(zone)
    /\ pdfFile' = IF zone = "pdf" THEN NoFile ELSE pdfFile
    /\ hl7File' = IF zone = "hl7" THEN NoFile ELSE hl7File
    /\ jsonFile' = IF zone = "json" THEN NoFile ELSE jsonFile
    /\ errorFrom' = 0
    /\ UNCHANGED <<component, hl7TextInput, hl7Content, jsonContent, isLoading, inFlight,
                   requests, lastAccepted, clicked, resultFrom>>

\* onDrop with no file at all: acceptedFiles[0] || null
ThreeDropEmpty(zone) ==
    /\ component = "Three"
    /\ error' = ""
    /\ pdfFile' = NoFile /\ hl7File' = NoFile /\ jsonFile' = NoFile
    /\ hl7Content' = EmptyStr
    /\ jsonContent' = NullJson
    /\ errorFrom' = 0
    /\ resultFrom' = 0
    /\ UNCHANGED <<component, hl7TextInput, isLoading, inFlight, requests, lastAccepted,
                   clicked>>

\* the file the Convert button hands to a handler: pdf, else hl7, else json
Dispatched == IF pdfFile # NoFile THEN pdfFile ELSE IF hl7File # NoFile THEN hl7File ELSE jsonFile

\* the Convert button, enabled, is clicked: the handler of the file runs up
\* to its await
ThreeConvertClick ==
    /\ component = "Three"
    /\ ~isLoading
    /\ Dispatched # NoFile
    /\ requests < MaxRequests
    /\ requests' = requests + 1
    /\ isLoading' = TRUE
    /\ error' = ""
    /\ hl7Content' = EmptyStr
    /\ jsonContent' = NullJson
    /\ inFlight' = inFlight \cup {[id |-> requests', handler |-> Dispatched.kind,
                                     file |-> Dispatched]}
    /\ clicked' = [file |-> Dispatched, accepted |-> lastAccepted]
    /\ errorFrom' = 0
    /\ resultFrom' = 0
    /\ UNCHANGED <<component, pdfFile, hl7File, jsonFile, hl7TextInput, lastAccepted>>

Failure(message) == [ok |-> FALSE, hl7 |-> EmptyStr, json |-> EmptyObj, message |-> message]
Hl7Result(text) ==
    IF text = Thrown THEN Failure("TypeError")
    ELSE [ok |-> TRUE, hl7 |-> text, json |-> EmptyObj, message |-> ""]
JsonResult(record) == [ok |-> TRUE, hl7 |-> EmptyStr, json |-> record, message |-> ""]

\* extractDataFromPDF and convertToHL7 inside handleConvertFromPdf
PdfConversion(r) ==
    IF r.outcome = "record"
    THEN Hl7Result(convertToHL7_PDF(r.extractedData))
    ELSE Failure("Failed to convert PDF to HL7")

\* extractDataFromJson and convertToHL7 inside handleConvertFromJson
JsonConversion(r) ==
    IF r.outcome = "record"
    THEN Hl7Result(convertToHL7_PDF(r.data))
    ELSE Failure("Failed to convert JSON to HL7")

\* what the handler does with the file once the read or extraction settles
ThreeConversion(file) ==
    CASE file.kind = "pdf" ->
           IF file.readable
           THEN PdfConversion(ExtractData(NormalizedText(AllText(file.pages))))
           ELSE Failure("Failed to convert PDF to HL7")
      [] file.kind = "hl7" ->
           IF file.readable
           THEN JsonResult(convertHL7ToJson_PDF(file.text))
           ELSE Failure("Failed to convert HL7 to JSON")
      [] file.kind = "json" ->
           IF file.ok
           THEN JsonConversion(extractDataFromJson(file.data))
           ELSE Failure("Failed to convert JSON to HL7")

\* mutant of LoadingAfterSettle: the flag is cleared on success only
LoadingAfterSuccess(ok) == ~ok

\* the conversions of the files, computed once
ThreeConversions ==
    {<<file, ThreeConversion(file)>> : file \in PdfFiles \cup Hl7Files \cup ThreeJsonFiles}

\* the entry of a table of conversions
Tabulated(table, input) == (CHOOSE entry \in table : entry[1] = input)[2]

\* isLoading after the finally block of a handler
LoadingAfterSettle(ok) == FALSE

\* what a handler awaits settles: the rest of the handler runs
ThreeSettle(c) ==
    /\ component = "Three"
    /\ c \in inFlight
    /\ \E r \in {Tabulated(ThreeConversions, c.file)} :
         /\ hl7Content' = IF r.ok /\ c.handler # "hl7" THEN r.hl7 ELSE hl7Content
         /\ jsonContent' = IF r.ok /\ c.handler = "hl7" THEN Shown(r.json) ELSE jsonContent
         /\ error' = IF r.ok THEN error ELSE r.message
         /\ errorFrom' = IF r.ok THEN errorFrom ELSE c.id
         /\ resultFrom' = IF r.ok THEN c.id ELSE resultFrom
         /\ isLoading' = LoadingAfterSettle(r.ok)
    /\ inFlight' = inFlight \ {c}
    /\ UNCHANGED <<component, pdfFile, hl7File, jsonFile, hl7TextInput, requests,
                   lastAccepted, clicked>>

(***************************************************************************)
(* The two-way converter (src/unnamed/part_000:9-654)                      *)
(***************************************************************************)
TwoWayZones == {"hl7", "json"}

TwoWayRejectionMessage(zone) ==
    IF zone = "json"
    THEN "Invalid file. Please upload a single .json file."
    ELSE "Invalid file. Please upload a single .hl7 or .txt file."

\* onDrop with an accepted file whose name has an extension of the zone
TwoWayDropAccepted(zone, file) ==
    /\ component = "TwoWay"
    /\ error' = ""
    /\ jsonFile' = IF zone = "json" THEN file ELSE NoFile
    /\ hl7File' = IF zone = "hl7" THEN file ELSE NoFile
    /\ hl7Content' = EmptyStr
    /\ jsonContent' = NullJson
    /\ hl7TextInput' = EmptyStr
    /\ lastAccepted' = file
    /\ errorFrom' = 0
    /\ resultFrom' = 0
    /\ UNCHANGED <<component, pdfFile, isLoading, inFlight, requests, clicked>>

\* onDrop with a rejection, or with a file whose name lacks the extension
TwoWayDropRejected(zone) ==
    /\ component = "TwoWay"
    /\ error' = TwoWayRejectionMessage(zone)
    /\ jsonFile' = IF zone = "json" THEN NoFile ELSE jsonFile
    /\ hl7File' = IF zone = "hl7" THEN NoFile ELSE hl7File
    /\ errorFrom' = 0
    /\ UNCHANGED <<component, pdfFile, hl7TextInput, hl7Content, jsonContent, isLoading,
                   inFlight, requests, lastAccepted, clicked, resultFrom>>

\* onChange of the text area
TypeText(text) ==
    /\ component = "TwoWay"
    /\ hl7TextInput' = text
    /\ UNCHANGED <<component, pdfFile, hl7File, jsonFile, hl7Content, jsonContent,
                   isLoading, error, inFlight, requests, lastAccepted, clicked, errorFrom,
                   resultFrom>>

\* convertHL7ToJson of the texts a conversion can be given, computed once
TwoWayDecodings ==
    {<<text, convertHL7ToJson_TD(text)>> :
        text \in TypedTexts \cup {file.text : file \in Hl7Files}}

\* "Convert JSON to HL7", enabled, is clicked: handleConvertFromJson runs up
\* to await convertToHL7(file)
TwoWayConvertJsonClick ==
    /\ component = "TwoWay"
    /\ ~isLoading
    /\ jsonFile # NoFile
    /\ requests < MaxRequests
    /\ requests' = requests + 1
    /\ isLoading' = TRUE
    /\ inFlight' = inFlight \cup {[id |-> requests', handler |-> "json", file |-> jsonFile]}
    /\ clicked' = [file |-> jsonFile, accepted |-> lastAccepted]
    /\ UNCHANGED <<component, pdfFile, hl7File, jsonFile, hl7TextInput, hl7Content,
                   jsonContent, error, lastAccepted, errorFrom, resultFrom>>

\* handleConvertFromHl7 from the text it has to the end: the lines after the
\* read of the file, which run in one turn
ConvertHl7Text(id, hl7Text) ==
    IF Trim(hl7Text) = EmptyStr
    THEN /\ error' = "No HL7 content provided. Please paste HL7 text or upload an HL7 file."
         /\ errorFrom' = id
         /\ UNCHANGED <<jsonContent, hl7Content, resultFrom, isLoading>>
    ELSE /\ jsonContent' = Shown(Tabulated(TwoWayDecodings, hl7Text))
         /\ hl7Content' = EmptyStr
         /\ resultFrom' = id
         /\ isLoading' = LoadingAfterSettle(TRUE)
         /\ UNCHANGED <<error, errorFrom>>

\* "Convert HL7 to JSON", enabled, is clicked: with a file and no text the
\* handler suspends at await hl7File.text(), before it sets isLoading;
\* otherwise it runs to its end
TwoWayConvertHl7Click ==
    /\ component = "TwoWay"
    /\ ~isLoading
    /\ requests < MaxRequests
    /\ requests' = requests + 1
    /\ IF hl7File # NoFile /\ hl7TextInput = EmptyStr
       THEN /\ inFlight' = inFlight \cup {[id |-> requests', handler |-> "hl7",
                                            file |-> hl7File]}
            /\ clicked' = [file |-> hl7File, accepted |-> lastAccepted]
            /\ UNCHANGED <<hl7Content, jsonContent, isLoading, error, errorFrom, resultFrom>>
       ELSE /\ ConvertHl7Text(requests', hl7TextInput)
            /\ UNCHANGED <<inFlight, clicked>>
    /\ UNCHANGED <<component, pdfFile, hl7File, jsonFile, hl7TextInput, lastAccepted>>

\* convertToHL7(file) of the two-way converter, as handleConvertFromJson
\* sees it
TwoWayJsonConversion(file) ==
    IF file.ok
    THEN Hl7Result(EncodeFromRef("TD", StoreParsed(RefInit, file)))
    ELSE Failure("Failed to convert JSON to HL7")

TwoWayConversions == {<<file, TwoWayJsonConversion(file)>> : file \in CodecJsonFiles}

\* what a handler awaits settles: the rest of the handler runs
TwoWaySettle(c) ==
    /\ component = "TwoWay"
    /\ c \in inFlight
    /\ IF c.handler = "json"
       THEN \E r \in {Tabulated(TwoWayConversions, c.file)} :
              /\ hl7Content' = IF r.ok THEN r.hl7 ELSE hl7Content
              /\ jsonContent' = IF r.ok THEN NullJson ELSE jsonContent
              /\ error' = IF r.ok THEN error ELSE r.message
              /\ errorFrom' = IF r.ok THEN errorFrom ELSE c.id
              /\ resultFrom' = IF r.ok THEN c.id ELSE resultFrom
              /\ isLoading' = LoadingAfterSettle(r.ok)
       ELSE IF c.file.readable
            THEN ConvertHl7Text(c.id, c.file.text)
            ELSE /\ error' = "Failed to read HL7 file"
                 /\ errorFrom' = c.id
                 /\ isLoading' = LoadingAfterSettle(FALSE)
                 /\ UNCHANGED <<hl7Content, jsonContent, resultFrom>>
    /\ inFlight' = inFlight \ {c}
    /\ UNCHANGED <<component, pdfFile, hl7File, jsonFile, hl7TextInput, requests,
                   lastAccepted, clicked>>

(***************************************************************************)
(* CMSConverter (src/CMSConverter.tsx:14-472)                              *)
(***************************************************************************)
\* onDrop with an accepted file whose name ends in .json
CmsDropAccepted(file) ==
    /\ component = "CMS"
    /\ error' = ""
    /\ jsonFile' = file
    /\ hl7Content' = EmptyStr
    /\ jsonContent' = NullJson
    /\ lastAccepted' = file
    /\ errorFrom' = 0
    /\ resultFrom' = 0
    /\ UNCHANGED <<component, pdfFile, hl7File, hl7TextInput, isLoading, inFlight, requests,
                   clicked>>

\* onDrop with a rejection, or with a file whose name lacks the extension
CmsDropRejected ==
    /\ component = "CMS"
    /\ error' = TwoWayRejectionMessage("json")
    /\ jsonFile' = NoFile
    /\ errorFrom' = 0
    /\ UNCHANGED <<component, pdfFile, hl7File, hl7TextInput, hl7Content, jsonContent,
                   isLoading, inFlight, requests, lastAccepted, clicked, resultFrom>>

\* the Convert button, enabled, is clicked: handleConvertFromJson runs up to
\* await convertToHL7(file)
CmsConvertClick ==
    /\ component = "CMS"
    /\ ~isLoading
    /\ jsonFile # NoFile
    /\ requests < MaxRequests
    /\ requests' = requests + 1
    /\ isLoading' = TRUE
    /\ inFlight' = inFlight \cup {[id |-> requests', handler |-> "json", file |-> jsonFile]}
    /\ clicked' = [file |-> jsonFile, accepted |-> lastAccepted]
    /\ UNCHANGED <<component, pdfFile, hl7File, jsonFile, hl7TextInput, hl7Content,
                   jsonContent, error, lastAccepted, errorFrom, resultFrom>>

\* convertToHL7(file) of src/CMSConverter.tsx, as handleConvertFromJson sees it
CmsJsonConversion(file) ==
    IF file.ok
    THEN Hl7Result(EncodeFromRef("CMS", StoreParsed(RefInit, file)))
    ELSE Failure("Failed to convert JSON to HL7")

\* the conversion and the decoding of its text, computed once
CmsConversions ==
    {<<file, CmsJsonConversion(file), convertHL7ToJson_CMS(CmsJsonConversion(file).hl7)>> :
        file \in CodecJsonFiles}

\* convertToHL7 settles: the rest of handleConvertFromJson runs
CmsSettle(c) ==
    /\ component = "CMS"
    /\ c \in inFlight
    /\ \E entry \in {e \in CmsConversions : e[1] = c.file} : \E r \in {entry[2]} :
         /\ hl7Content' = IF r.ok THEN r.hl7 ELSE hl7Content
         /\ jsonContent' = IF r.ok THEN Shown(entry[3]) ELSE jsonContent
         /\ error' = IF r.ok THEN error ELSE r.message
         /\ errorFrom' = IF r.ok THEN errorFrom ELSE c.id
         /\ resultFrom' = IF r.ok THEN c.id ELSE resultFrom
         /\ isLoading' = LoadingAfterSettle(r.ok)
    /\ inFlight' = inFlight \ {c}
    /\ UNCHANGED <<component, pdfFile, hl7File, jsonFile, hl7TextInput, requests,
                   lastAccepted, clicked>>

(***************************************************************************)
(* Specifications                                                          *)
(***************************************************************************)
CoreIdle == DateIdle /\ SegIdle /\ CodecIdle /\ ExtractIdle
LaterIdle == ConcIdle /\ DetIdle /\ FromJsonIdle /\ UiIdle

InitDate == DateInit /\ SegIdle /\ CodecIdle /\ ExtractIdle /\ LaterIdle
NextDate ==
    \/ FormatDate /\ UNCHANGED <<segVars, codecVars, extractVars, laterVars>>
    \/ FormatDateAgain /\ UNCHANGED <<segVars, codecVars, extractVars, laterVars>>
SpecDate == InitDate /\ [][NextDate]_vars

InitSeg == SegInit /\ DateIdle /\ CodecIdle /\ ExtractIdle /\ LaterIdle
NextSeg == CreateSegment /\ UNCHANGED <<dateVars, codecVars, extractVars, laterVars>>
SpecSeg == InitSeg /\ [][NextSeg]_vars

InitEnc ==
    (StdRecordInit \/ ObxRecordInit) /\ DateIdle /\ SegIdle /\ ExtractIdle /\ LaterIdle
NextEnc ==
    \/ ConvertToHL7 /\ UNCHANGED <<dateVars, segVars, extractVars, laterVars>>
    \/ ConvertHL7ToJson /\ UNCHANGED <<dateVars, segVars, extractVars, laterVars>>
SpecEnc == InitEnc /\ [][NextEnc]_vars

InitDec ==
    (WireInit \/ ObxWireInit \/ DateWireInit) /\ DateIdle /\ SegIdle /\ ExtractIdle
        /\ LaterIdle
NextDec == ConvertHL7ToJson /\ UNCHANGED <<dateVars, segVars, extractVars, laterVars>>
SpecDec == InitDec /\ [][NextDec]_vars

InitExtract == ExtractInit /\ DateIdle /\ SegIdle /\ CodecIdle /\ LaterIdle
NextExtract ==
    ExtractDataFromPDF /\ UNCHANGED <<dateVars, segVars, codecVars, laterVars>>
SpecExtract == InitExtract /\ [][NextExtract]_vars

InitConc == ConcInit /\ CoreIdle /\ DetIdle /\ FromJsonIdle /\ UiIdle
NextConc ==
    \/ \E i \in Invocations :
         CallConvertToHL7(i) /\ UNCHANGED <<coreVars, detVars, fromJsonVars, uiVars>>
    \/ \E i \in Invocations :
         ReadSettles(i) /\ UNCHANGED <<coreVars, detVars, fromJsonVars, uiVars>>
SpecConc == InitConc /\ [][NextConc]_vars

InitDet == DetInit /\ CoreIdle /\ ConcIdle /\ FromJsonIdle /\ UiIdle
NextDet ==
    \/ ClockTick /\ UNCHANGED <<coreVars, concVars, fromJsonVars, uiVars>>
    \/ Encode /\ UNCHANGED <<coreVars, concVars, fromJsonVars, uiVars>>
SpecDet == InitDet /\ [][NextDet]_vars

InitFromJson == FromJsonInit /\ CoreIdle /\ ConcIdle /\ DetIdle /\ UiIdle
NextFromJson ==
    \/ ExtractDataFromJson /\ UNCHANGED <<coreVars, concVars, detVars, uiVars>>
    \/ ConvertExtracted /\ UNCHANGED <<coreVars, concVars, detVars, uiVars>>
SpecFromJson == InitFromJson /\ [][NextFromJson]_vars

notUiVars == <<coreVars, concVars, detVars, fromJsonVars>>
NotUiIdle == CoreIdle /\ ConcIdle /\ DetIdle /\ FromJsonIdle

InitThree == UiInit("Three") /\ NotUiIdle
NextThree ==
    \/ \E zone \in Zones : \E file \in FilesFor("Three", zone) :
         ThreeDropAccepted(zone, file) /\ UNCHANGED notUiVars
    \/ \E zone \in Zones : ThreeDropRejected(zone) /\ UNCHANGED notUiVars
    \/ \E zone \in Zones : ThreeDropEmpty(zone) /\ UNCHANGED notUiVars
    \/ ThreeConvertClick /\ UNCHANGED notUiVars
    \/ \E c \in inFlight : ThreeSettle(c) /\ UNCHANGED notUiVars
SpecThree == InitThree /\ [][NextThree]_vars

InitTwoWay == UiInit("TwoWay") /\ NotUiIdle
NextTwoWay ==
    \/ \E zone \in TwoWayZones : \E file \in FilesFor("TwoWay", zone) :
         TwoWayDropAccepted(zone, file) /\ UNCHANGED notUiVars
    \/ \E zone \in TwoWayZones : TwoWayDropRejected(zone) /\ UNCHANGED notUiVars
    \/ \E text \in TypedTexts : TypeText(text) /\ UNCHANGED notUiVars
    \/ TwoWayConvertJsonClick /\ UNCHANGED notUiVars
    \/ TwoWayConvertHl7Click /\ UNCHANGED notUiVars
    \/ \E c \in inFlight : TwoWaySettle(c) /\ UNCHANGED notUiVars
SpecTwoWay == InitTwoWay /\ [][NextTwoWay]_vars

NextCms ==
    \/ \E file \in FilesFor("CMS", "json") : CmsDropAccepted(file) /\ UNCHANGED notUiVars
    \/ CmsDropRejected /\ UNCHANGED notUiVars
    \/ CmsConvertClick /\ UNCHANGED notUiVars
    \/ \E c \in inFlight : CmsSettle(c) /\ UNCHANGED notUiVars

\* the handler of request id, suspended at its await, resumes
Settle(id) ==
    \E c \in inFlight :
        /\ c.id = id
        /\ ThreeSettle(c) \/ TwoWaySettle(c) \/ CmsSettle(c)
        /\ UNCHANGED notUiVars

\* any of the three components, with every pending read or extraction
\* settling in the end
InitLoading == (\E comp \in {"Three", "TwoWay", "CMS"} : UiInit(comp)) /\ NotUiIdle
NextLoading == NextThree \/ NextTwoWay \/ NextCms
SpecLoading ==
    InitLoading /\ [][NextLoading]_vars /\ \A id \in 1..MaxRequests : WF_vars(Settle(id))


(***************************************************************************)
(* Claims about formatDate                                                 *)
(***************************************************************************)
\* the positions of s that hold no decimal digit
NonDigitPos(s) == {i \in 1..Len(s) : s[i] \notin Digits}

\* s is <1-2 digits><sep><1-2 digits><sep><4 digits>, told by where its
\* separators stand
IsMDYShape(s) ==
    \E i \in 2..3 : \E j \in (i + 2)..(i + 3) :
        /\ NonDigitPos(s) = {i, j}
        /\ Len(s) = j + 4
        /\ s[i] \in {"-", "/"}
        /\ s[j] \in {"-", "/"}

Pad2(g) == IF Len(g) = 1 THEN <<"0">> \o g ELSE g

\* year, then month and day on two digits each, of a string of that shape
ExpectedToken(s) ==
    LET i == CHOOSE k \in NonDigitPos(s) : \A l \in NonDigitPos(s) : k <= l
        j == CHOOSE k \in NonDigitPos(s) : \A l \in NonDigitPos(s) : k >= l
    IN  SubSeq(s, j + 1, Len(s)) \o Pad2(SubSeq(s, 1, i - 1)) \o Pad2(SubSeq(s, i + 1, j - 1))

\* C3: formatDate returns an 8-digit input unchanged, returns year, padded
\* month and padded day for an input <m><sep><d><sep><yyyy>, and returns the
\* empty string for every other input.
C3_FormatDateCases ==
    datePc \in {"out", "again"} =>
        /\ (Len(dateStr) = 8 /\ NonDigitPos(dateStr) = {}) => dateOut = dateStr
        /\ IsMDYShape(dateStr) => dateOut = ExpectedToken(dateStr)
        /\ (~(Len(dateStr) = 8 /\ NonDigitPos(dateStr) = {}) /\ ~IsMDYShape(dateStr))
              => dateOut = EmptyStr

\* a date with a one-digit month and a two-digit day has been normalised
C3_Witness ==
    /\ datePc = "out"
    /\ IsMDYShape(dateStr)
    /\ Len(dateStr) = 9
    /\ dateStr[2] = "/"
    /\ Len(dateOut) = 8

\* C4: formatDate is idempotent: applied to its own result it returns that
\* result.
C4_FormatDateIdempotent ==
    datePc = "again" => dateOut2 = dateOut

\* a date that formatDate rewrote has been normalised a second time
C4_Witness ==
    /\ datePc = "again"
    /\ IsMDYShape(dateStr)
    /\ dateOut # dateStr
    /\ dateOut2 # EmptyStr

(***************************************************************************)
(* Claims about createSegment                                              *)
(***************************************************************************)
\* the fields of the emitted line: what follows the type token
EmittedFields == Tail(Split(segLine, Pipe))

AnyNonEmpty(fields) == \E i \in 1..Len(fields) : fields[i] # EmptyStr

\* the index of the last non-empty field
LastNonEmpty(fields) ==
    CHOOSE i \in 1..Len(fields) :
        fields[i] # EmptyStr /\ \A k \in (i + 1)..Len(fields) : fields[k] = EmptyStr

\* C5: createSegment removes every trailing empty field (the emitted line
\* ends with no empty field), and when some field is non-empty the emitted
\* fields are the given ones up to the last non-empty one, joined with '|'
\* after the type token.
C5_TrailingEmptiesRemoved ==
    segPc = "out" =>
        /\ EmittedFields = <<>> \/ EmittedFields[Len(EmittedFields)] # EmptyStr
        /\ AnyNonEmpty(segFields) =>
              /\ EmittedFields = SubSeq(segFields, 1, LastNonEmpty(segFields))
              /\ segLine = Join(<<segName>> \o EmittedFields, <<Pipe>>)

\* C6: a segment whose fields are all empty is emitted as the bare type
\* token, with no pipe after it.
C6_AllEmptyIsBareType ==
    (segPc = "out" /\ ~AnyNonEmpty(segFields)) => segLine = segName

(***************************************************************************)
(* Reading a wire text and a schema, for the claims about the codec        *)
(***************************************************************************)
LinesOf(text) == Split(text, NewLine)
TypeOf(line) == Head(Split(line, Pipe))
FieldsOf(line) == Tail(Split(line, Pipe))

\* the lines of the text whose type token is `type`
LinesOfType(text, type) ==
    LET hasType(line) == TypeOf(line) = type
    IN  SelectSeq(LinesOf(text), hasType)

ObxNames ==
    {"setId", "valueType", "observationIdentifier", "observationValue",
     "observationStatus"}

\* the field names the schema of a component maps, per standard segment type
SchemaNames(v, seg) ==
    IF v = "CMS"
    THEN {hl7Mappings(seg)[k].path[2] :
            k \in {e \in 1..Len(hl7Mappings(seg)) : hl7Mappings(seg)[e].path # <<>>}}
    ELSE {segmentDefinitions(seg)[k].field : k \in 1..Len(segmentDefinitions(seg))}

\* the 1-based wire position the schema gives a mapped field name: MSH-3 is
\* the third entry of hl7Mappings.MSH, PV1-19 the entry with index 19
SchemaPosition(v, seg, name) ==
    IF v = "CMS"
    THEN CHOOSE k \in 1..Len(hl7Mappings(seg)) : hl7Mappings(seg)[k].path = <<seg, name>>
    ELSE segmentDefinitions(seg)[
            CHOOSE k \in 1..Len(segmentDefinitions(seg)) :
                segmentDefinitions(seg)[k].field = name].index

\* every key and every field name of the record is one the schema covers
Covered(v, record) ==
    \A k \in DOMAIN record :
        /\ k \in StdSegs \/ IsObxKey(k)
        /\ k \in StdSegs => DOMAIN record[k] \subseteq SchemaNames(v, k)
        /\ IsObxKey(k) => DOMAIN record[k] \subseteq ObxNames

\* a date field of the record holds anything but an 8-digit token
HasRawDate(record) ==
    \E k \in DOMAIN record : \E name \in DOMAIN record[k] \cap DateNames :
        ~(Len(record[k][name]) = 8 /\ AllDigits(record[k][name]))

\* an OBX instance of the record is keyed by anything but "OBX" + its setId
HasForeignObxKey(record) ==
    \E k \in DOMAIN record :
        IsObxKey(k) /\ k # OBX \o (IF "setId" \in DOMAIN record[k]
                                    THEN record[k]["setId"] ELSE EmptyStr)

\* the record without its fields that hold the empty string, and without the
\* segments that are left with no field
Populated(record) ==
    [k \in {s \in DOMAIN record : \E n \in DOMAIN record[s] : record[s][n] # EmptyStr}
        |-> [n \in {m \in DOMAIN record[k] : record[k][m] # EmptyStr} |-> record[k][n]]]

\* C1: a record whose populated fields are all covered by the schema is
\* returned unchanged by encoding it and decoding the wire text.  Read in
\* favour of the claim: dates are already 8-digit tokens, OBX instances are
\* keyed by their setId, and a field holding the empty string counts as a
\* field that is not populated.
C1_RoundTrip ==
    (/\ pc = "decoded"
     /\ Covered(variant, data)
     /\ ~HasRawDate(data)
     /\ ~HasForeignObxKey(data))
        => Populated(json) = Populated(data)

\* C2: the encoder writes the mapped field of schema position p as the p-th
\* value after the type token, and the decoder reads that field name from
\* the same place.
C2_PositionAgreement ==
    pc = "decoded" =>
        \A seg \in DOMAIN data \cap StdSegs :
            \A name \in DOMAIN data[seg] \cap SchemaNames(variant, seg) :
                LET p == SchemaPosition(variant, seg, name)
                    written == IF name \in DateNames
                               THEN formatDate(data[seg][name])
                               ELSE data[seg][name]
                    lines == LinesOfType(hl7, seg)
                IN  /\ Len(lines) = 1
                    /\ Len(FieldsOf(lines[1])) >= p
                    /\ FieldsOf(lines[1])[p] = written
                    /\ seg \in DOMAIN json
                    /\ name \in DOMAIN json[seg]
                    /\ json[seg][name] = written

\* C7: the wire text holds no line of a standard segment type that is no key
\* of the input record.
C7_AbsentTypeNotEmitted ==
    pc \in {"encoded", "decoded"} =>
        \A seg \in StdSegs \ DOMAIN data : LinesOfType(hl7, seg) = <<>>

(***************************************************************************)
(* Claims about the order of the OBX lines                                 *)
(***************************************************************************)
\* a is b or stands before b in the lexicographic order of strings
LexLeq(a, b) ==
    \/ Len(a) <= Len(b) /\ SubSeq(b, 1, Len(a)) = a
    \/ \E i \in 1..Len(a) :
         /\ i <= Len(b)
         /\ SubSeq(a, 1, i - 1) = SubSeq(b, 1, i - 1)
         /\ CharRank(a[i]) < CharRank(b[i])

\* the setId of an instance of the record, empty when it has none
SetIdOf(k) == IF "setId" \in DOMAIN data[k] THEN data[k]["setId"] ELSE EmptyStr

\* what the instances are ordered by: the setId, the record key when it is empty
SortIdOf(k) == IF SetIdOf(k) # EmptyStr THEN SetIdOf(k) ELSE k

\* the place of a key among the keys of the input record
PlaceOf(k) == CHOOSE i \in 1..Len(keyOrder) : keyOrder[i] = k

\* one OBX line per record key that starts with "OBX", in the order of
\* obxSorted, each carrying the setId of its instance
OneObxLinePerKey ==
    LET lines == LinesOfType(hl7, OBX)
    IN  /\ Len(lines) = Len(obxSorted)
        /\ {obxSorted[i] : i \in 1..Len(obxSorted)} = {k \in DOMAIN data : IsObxKey(k)}
        /\ \A i, j \in 1..Len(obxSorted) : obxSorted[i] = obxSorted[j] => i = j
        /\ \A i \in 1..Len(lines) : FieldAt(FieldsOf(lines[i]), 0) = SetIdOf(obxSorted[i])

\* C8 as stated: the OBX lines are ordered by the setId of their instances,
\* whatever the order of the keys in the input record.
C8_OrderedBySetIdOnly ==
    pc = "encoded" =>
        /\ OneObxLinePerKey
        /\ \A i, j \in 1..Len(obxSorted) :
              i < j => LexLeq(SetIdOf(obxSorted[i]), SetIdOf(obxSorted[j]))
        /\ \A order \in Orderings(DOMAIN data) :
              ObxSegments(data, SortedObxKeys(data, order)) = LinesOfType(hl7, OBX)

\* C8, amended: the OBX lines are ordered by the setId of their instances,
\* the record key standing in for an empty or absent setId; instances that
\* compare equal keep the order of the keys in the input record.
C8_OrderedBySetIdOrKey ==
    pc = "encoded" =>
        /\ OneObxLinePerKey
        /\ \A i, j \in 1..Len(obxSorted) :
              i < j =>
                /\ LexLeq(SortIdOf(obxSorted[i]), SortIdOf(obxSorted[j]))
                /\ SortIdOf(obxSorted[i]) = SortIdOf(obxSorted[j])
                     => PlaceOf(obxSorted[i]) < PlaceOf(obxSorted[j])

\* the instance with setId "10" has been emitted before the one with setId
\* "2", which came first in the input record
C8_Witness ==
    /\ pc = "encoded"
    /\ Len(obxSorted) = 2
    /\ SetIdOf(obxSorted[1]) = <<"1", "0">>
    /\ SetIdOf(obxSorted[2]) = <<"2">>
    /\ keyOrder = <<obxSorted[2], obxSorted[1]>>
    /\ Len(LinesOfType(hl7, OBX)) = 2

(***************************************************************************)
(* Claims about the decoders                                               *)
(***************************************************************************)
\* the name the table-driven schema gives wire position n of a segment type
SchemaNameTD(type, n) ==
    IF type \in StdSegs
    THEN IF \E k \in 1..Len(segmentDefinitions(type)) : segmentDefinitions(type)[k].index = n
         THEN segmentDefinitions(type)[
                 CHOOSE k \in 1..Len(segmentDefinitions(type)) :
                     segmentDefinitions(type)[k].index = n].field
         ELSE FieldKey(n)
    ELSE \* OBX
         CASE n = 1 -> "setId"
           [] n = 2 -> "valueType"
           [] n = 3 -> "observationIdentifier"
           [] n = 5 -> "observationValue"
           [] n = 11 -> "observationStatus"
           [] OTHER -> FieldKey(n)

\* the lines a decoder that drops blank lines goes through
DecodedLines == LET notBlank(line) == ~IsBlank(line) IN SelectSeq(LinesOf(hl7), notBlank)

\* C9: the table-driven decoder stores every field of a line of a known type,
\* the value of wire position n under the schema's name for n, or under
\* field<n> when the schema maps no name to n; it drops no position.
C9_KnownTypeFieldNames ==
    (pc = "decoded" /\ variant = "TD") =>
        \A i \in 1..Len(DecodedLines) :
            LET type == TypeOf(DecodedLines[i])
                fields == FieldsOf(DecodedLines[i])
                key == SegmentKeyTD(type, fields)
                last == \A j \in (i + 1)..Len(DecodedLines) :
                            SegmentKeyTD(TypeOf(DecodedLines[j]), FieldsOf(DecodedLines[j])) # key
            IN  (type \in StdSegs \cup {OBX} /\ last) =>
                    /\ key \in DOMAIN json
                    /\ DOMAIN json[key] = {SchemaNameTD(type, n) : n \in 1..Len(fields)}
                    /\ Cardinality(DOMAIN json[key]) = Len(fields)
                    /\ \A n \in 1..Len(fields) : json[key][SchemaNameTD(type, n)] = fields[n]

\* a PID line with two fields has been decoded: position 1 is mapped (setId),
\* position 2 is not (field2)
C9_Witness ==
    /\ pc = "decoded"
    /\ variant = "TD"
    /\ PID \in DOMAIN json
    /\ DOMAIN json[PID] = {"setId", "field2"}
    /\ json[PID]["field2"] # EmptyStr

\* C10: in every decoder the k-th value of a line of an unknown segment type
\* is stored under field<k>, and none is dropped.
C10_UnknownTypeFieldNames ==
    pc = "decoded" =>
        \A i \in 1..Len(LinesOf(hl7)) :
            LET fields == FieldsOf(LinesOf(hl7)[i])
                last == \A j \in (i + 1)..Len(LinesOf(hl7)) : TypeOf(LinesOf(hl7)[j]) # ZZZ
            IN  (TypeOf(LinesOf(hl7)[i]) = ZZZ /\ last) =>
                    /\ ZZZ \in DOMAIN json
                    /\ DOMAIN json[ZZZ] = {FieldKey(k) : k \in 1..Len(fields)}
                    /\ \A k \in 1..Len(fields) : json[ZZZ][FieldKey(k)] = fields[k]

\* the lines a decoder of variant v goes through
LinesSeen(v) == IF v = "PDF" THEN LinesOf(hl7) ELSE DecodedLines

\* the key a decoder of variant v stores a line under
KeyOf(v, line) ==
    CASE v = "CMS" /\ TypeOf(line) = OBX -> ObxKeyCMS(FieldsOf(line))
      [] v = "TD" -> SegmentKeyTD(TypeOf(line), FieldsOf(line))
      [] OTHER -> TypeOf(line)

\* no line after the i-th is stored under the key of the i-th
LastForKey(v, i) ==
    \A j \in (i + 1)..Len(LinesSeen(v)) :
        KeyOf(v, LinesSeen(v)[j]) # KeyOf(v, LinesSeen(v)[i])

\* the wire positions of an OBX line that both schemas name
ObxPositions == {1, 2, 3, 5, 11}

\* the first field of a line, empty when the line has none
SetIdOfLine(line) == FieldAt(FieldsOf(line), 0)

\* the record holds under `key` the fields of the OBX line, and no value at
\* a position the line does not have
HoldsObxLine(record, key, line) ==
    /\ key \in DOMAIN record
    /\ \A n \in ObxPositions :
         IF n <= Len(FieldsOf(line))
         THEN /\ SchemaNameTD(OBX, n) \in DOMAIN record[key]
              /\ record[key][SchemaNameTD(OBX, n)] = FieldsOf(line)[n]
         ELSE SchemaNameTD(OBX, n) \in DOMAIN record[key]
                  => record[key][SchemaNameTD(OBX, n)] = EmptyStr

\* no OBX line after the i-th has the set-identifier of the i-th
LastWithSetId(i) ==
    \A j \in (i + 1)..Len(DecodedLines) :
        TypeOf(DecodedLines[j]) = OBX =>
            SetIdOfLine(DecodedLines[j]) # SetIdOfLine(DecodedLines[i])

StatedObxKey(line) ==
    IF SetIdOfLine(line) \in {EmptyStr, <<"0">>} THEN OBX ELSE OBX \o SetIdOfLine(line)

\* C12: the decoders of src/CMSConverter.tsx and of the table-driven component
\* store an OBX line under "OBX" followed by its set-identifier, and under
\* "OBX" alone when the set-identifier is absent, empty or "0".
C12_ObxKeySuffix ==
    (pc = "decoded" /\ variant \in {"CMS", "TD"}) =>
        \A i \in 1..Len(DecodedLines) :
            (TypeOf(DecodedLines[i]) = OBX /\ LastForKey(variant, i)) =>
                /\ KeyOf(variant, DecodedLines[i]) = StatedObxKey(DecodedLines[i])
                /\ HoldsObxLine(json, StatedObxKey(DecodedLines[i]), DecodedLines[i])

\* the record a decoder of variant v makes of a wire text
Decoded(v, text) ==
    CASE v = "CMS" -> convertHL7ToJson_CMS(text)
      [] v = "TD" -> convertHL7ToJson_TD(text)
      [] v = "PDF" -> convertHL7ToJson_PDF(text)

\* C13: when two lines are stored under the same key, the field map under
\* that key is the field map of the later line decoded alone: no field of
\* the earlier line survives.
C13_LastWriteWins ==
    pc = "decoded" =>
        \A i, j \in 1..Len(LinesSeen(variant)) :
            LET key == KeyOf(variant, LinesSeen(variant)[j])
            IN  (/\ i < j
                 /\ KeyOf(variant, LinesSeen(variant)[i]) = key
                 /\ LastForKey(variant, j)) =>
                    /\ key \in DOMAIN json
                    /\ json[key] = Decoded(variant, LinesSeen(variant)[j])[key]

\* OBX|1|A and then OBX|1 have been decoded by the table-driven decoder:
\* the value type of the first line is gone
C13_Witness ==
    /\ pc = "decoded"
    /\ variant = "TD"
    /\ Len(LinesOf(hl7)) = 2
    /\ FieldsOf(LinesOf(hl7)[1]) = <<<<"1">>, <<"A">>>>
    /\ FieldsOf(LinesOf(hl7)[2]) = <<<<"1">>>>
    /\ OBX1 \in DOMAIN json
    /\ DOMAIN json[OBX1] = {"setId"}

\* C14: a line that is a bare segment type token is decoded to a field map
\* with no key at all, whether the type is known or not.
C14_BareTypeEmptyMap ==
    (pc = "decoded" /\ variant \in {"CMS", "TD"}) =>
        \A i \in 1..Len(DecodedLines) :
            (FieldsOf(DecodedLines[i]) = <<>> /\ LastForKey(variant, i)) =>
                /\ KeyOf(variant, DecodedLines[i]) \in DOMAIN json
                /\ json[KeyOf(variant, DecodedLines[i])] = EmptyObj

\* C15: every decoder discards the blank lines: the decoded record is the
\* record of the text without them, and no key of it is blank unless a line
\* that is not blank has that type token.
C15_BlankLinesDiscarded ==
    pc = "decoded" =>
        /\ json = Decoded(variant, Join(DecodedLines, <<NewLine>>))
        /\ \A k \in DOMAIN json :
             IsBlank(k) => \E i \in 1..Len(DecodedLines) : TypeOf(DecodedLines[i]) = k

\* the wire positions of the date fields every decoder names
DatePositions == (MSH :> 6) @@ (PID :> 7) @@ (PR1 :> 5)
DateNameOf == (MSH :> "dateTime") @@ (PID :> "dob") @@ (PR1 :> "procedureDate")

\* C16: every value of the decoded record is the raw string of a field of
\* its line (or empty), and the value at the date position of a line is
\* stored unchanged under the date name, whatever its form.
C16_NoTransformOnDecode ==
    pc = "decoded" =>
        \A i \in 1..Len(LinesSeen(variant)) :
            LET line == LinesSeen(variant)[i]
                type == TypeOf(line)
                fields == FieldsOf(line)
                key == KeyOf(variant, line)
            IN  LastForKey(variant, i) =>
                    /\ key \in DOMAIN json
                    /\ \A name \in DOMAIN json[key] :
                         \/ json[key][name] = EmptyStr
                         \/ \E n \in 1..Len(fields) : json[key][name] = fields[n]
                    /\ (type \in DOMAIN DatePositions /\ Len(fields) >= DatePositions[type]) =>
                         /\ DateNameOf[type] \in DOMAIN json[key]
                         /\ json[key][DateNameOf[type]] = fields[DatePositions[type]]

\* a PID line with 05/16/2025 at the position of dob has been decoded
C16_Witness ==
    /\ pc = "decoded"
    /\ variant \in {"CMS", "TD"}
    /\ PID \in DOMAIN json
    /\ "dob" \in DOMAIN json[PID]
    /\ json[PID]["dob"] = DateSlashed
    /\ FieldsOf(hl7)[7] = DateSlashed

\* the OBX lines among the lines the decoder goes through
ObxLinesSeen == LET isObx(line) == TypeOf(line) = OBX IN SelectSeq(DecodedLines, isObx)

\* the set-identifiers of the OBX lines are non-zero and differ from each other
DistinctNonZeroSetIds ==
    /\ \A i \in 1..Len(ObxLinesSeen) : SetIdOfLine(ObxLinesSeen[i]) \notin {EmptyStr, <<"0">>}
    /\ \A i, k \in 1..Len(ObxLinesSeen) :
           i # k => SetIdOfLine(ObxLinesSeen[i]) # SetIdOfLine(ObxLinesSeen[k])

\* the OBX lines convertToHL7 emits for the decoded record: one for each of
\* its keys that starts with "OBX"
ReencodedObxLines == Cardinality({k \in DOMAIN json : IsObxKey(k)})

\* C29: the record convertHL7ToJson of src/CMSConverter.tsx returns has
\* exactly the segment keys computed from the lines of the message; when
\* the OBX lines carry non-zero set-identifiers it has no key "OBX", and
\* (the set-identifiers being distinct) encoding it again emits as many OBX
\* lines as the message has.
C29_NoSpuriousKeys ==
    (pc = "decoded" /\ variant = "CMS") =>
        /\ DOMAIN json = {KeyOf("CMS", DecodedLines[i]) : i \in 1..Len(DecodedLines)}
        /\ DistinctNonZeroSetIds =>
               /\ OBX \notin DOMAIN json
               /\ ReencodedObxLines = Len(ObxLinesSeen)

(***************************************************************************)
(* Claims about extractDataFromPDF                                         *)
(***************************************************************************)
\* word occurs in text, letter case ignored
ContainsWord(text, word) ==
    \E i \in 1..(Len(text) - Len(word) + 1) :
        \A k \in 1..Len(word) : ToLower(text[i + k - 1]) = ToLower(word[k])

Keywords ==
    {Chars("patient"), Chars("insured"), Chars("dob"), Chars("service"), Chars("provider")}

\* the cleaned text of the pages, computed from the items
CleanedText == NormalizedText(AllText(pdfPages))

\* the required fields the patterns find in a text, the gate left aside
RequiredMatchable(text) == ExtractFrom(text, 1, ExtractStart).requiredFieldsFound

\* C17: extractDataFromPDF fails with the no-valid-data error, and returns
\* no record, whenever the cleaned text is shorter than 50 characters or
\* holds none of the keywords, whatever the field patterns match in it.
C17_DocumentGate ==
    (extractPc = "done" /\ pdfReadable) =>
        /\ normalizedText = CleanedText
        /\ (\/ Len(CleanedText) < 50
            \/ \A w \in Keywords : ~ContainsWord(CleanedText, w)) =>
               /\ extractOutcome = "no_valid_data"
               /\ extractedData = EmptyObj

\* a text of 50 characters or more without a keyword, in which the patterns
\* find the four required fields, has been rejected
C17_Witness ==
    /\ extractPc = "done"
    /\ extractOutcome = "no_valid_data"
    /\ Len(normalizedText) >= 50
    /\ RequiredMatchable(normalizedText) = 4

RequiredKeys ==
    {fieldExtractors[i].key : i \in {k \in 1..Len(fieldExtractors) : fieldExtractors[k].required}}

\* the match the loop works with for an entry: the pattern's, or the
\* fallback's when the pattern has none
MatchOf(text, e) == OrFallback(text, e, StrMatch(text, e.regex))

\* the entry of fieldExtractors for a key
ExtractorOf(key) ==
    fieldExtractors[CHOOSE i \in 1..Len(fieldExtractors) : fieldExtractors[i].key = key]

\* the text holds a match for the date field `key` whose year satisfies inRange
DateMatched(key, inRange(_)) ==
    LET m == MatchOf(normalizedText, ExtractorOf(key))
    IN  /\ m.ok
        /\ ~DatePartsOf(normalizedText, m).thrown
        /\ DatePartsOf(normalizedText, m).year # Undefined
        /\ inRange(ParseInt(DatePartsOf(normalizedText, m).year))

\* month/day/year of the match for the date field `key`
DateOf(key) ==
    LET p == DatePartsOf(normalizedText, MatchOf(normalizedText, ExtractorOf(key)))
    IN  p.month \o <<"/">> \o p.day \o <<"/">> \o p.year

C19_QuorumGate ==
    (extractPc = "done" /\ pdfReadable /\ extractOutcome # "no_valid_data") =>
        LET accepted == Cardinality(RequiredKeys \cap DOMAIN extractedData)
        IN  /\ extractOutcome = "insufficient" <=> accepted < 4
            /\ accepted >= 4 => extractOutcome = "record"
            /\ extractOutcome \in {"insufficient", "record"}

\* C20: when extractDataFromPDF fails for lack of quorum, the missing field
\* names of the failure are exactly the required fields that have not been
\* matched and accepted.
C20_MissingFieldsExact ==
    (extractPc = "done" /\ extractOutcome = "insufficient") =>
        {missingRequiredFields[i] : i \in 1..Len(missingRequiredFields)}
            = RequiredKeys \ DOMAIN extractedData

\* the field `key` has not been set from the text: its pattern and fallback
\* have no match, or the match is blank, or it is a date whose year is not
\* inside 1900..2025
NotSetFromText(key) ==
    LET m == MatchOf(normalizedText, ExtractorOf(key))
    IN  \/ ~m.ok
        \/ key \notin DateKeys /\ Trim(Group(normalizedText, m, 1)) = EmptyStr
        \/ key \in DateKeys /\ ~DateMatched(key, LAMBDA y : y >= 1900 /\ y <= 2025)

\* the default of the field `key`
DefaultOf(key) ==
    fieldDefaults[CHOOSE i \in 1..Len(fieldDefaults) : fieldDefaults[i][1] = key][2]

DefaultedKeys == {fieldDefaults[i][1] : i \in 1..Len(fieldDefaults)}

\* C21: every record extractDataFromPDF returns holds the twelve fields of a
\* CMS1500Data, each a non-empty string, and each field that is not required
\* and has not been set from the text (no match, a blank match, or a date
\* whose year was rejected) holds its default.
C21_FullyShaped ==
    (extractPc = "done" /\ extractOutcome = "record") =>
        /\ DOMAIN extractedData = CMS1500DataFields
        /\ \A key \in CMS1500DataFields : extractedData[key] \notin {EmptyStr, Undefined}
        /\ CMS1500DataFields \ RequiredKeys = DefaultedKeys
        /\ \A key \in DefaultedKeys :
               NotSetFromText(key) => extractedData[key] = DefaultOf(key)

\* a record has been returned in which the plan matched only white space,
\* the birth date was rejected for its year and the provider did not match:
\* the three hold their defaults
C21_Witness ==
    /\ extractPc = "done"
    /\ extractOutcome = "record"
    /\ MatchOf(normalizedText, ExtractorOf("insurancePlan")).ok
    /\ Trim(Group(normalizedText, MatchOf(normalizedText, ExtractorOf("insurancePlan")), 1))
           = EmptyStr
    /\ extractedData["insurancePlan"] = Chars("Unknown Plan")
    /\ DateMatched("dob", LAMBDA y : y < 1900)
    /\ extractedData["dob"] = Chars("01/01/1900")
    /\ ~MatchOf(normalizedText, ExtractorOf("providerName")).ok
    /\ extractedData["providerName"] = Chars("Unknown Provider")

\* the page lists of the readable input PDFs
ExtractInputs ==
    {IF h = <<>> THEN <<n \o i \o d \o s \o g>> ELSE <<h, n \o i \o d \o s \o g>> :
        h \in HeaderItems, n \in NameItems, i \in IdItems, d \in DobItems,
        s \in ServiceItems, g \in DiagnosisItems}

\* extractDataFromPDF returns a record for the text although the pattern and
\* the fallback of a required field have no match in it
PartiallyAccepted(text) ==
    /\ ExtractData(text).outcome = "record"
    /\ \E key \in RequiredKeys : ~MatchOf(text, ExtractorOf(key)).ok

\* C22 as stated: there is an input, the PDF at hand or another one, for
\* which extractDataFromPDF returns a record although at least one required
\* field was not matched.
C22_PartialAcceptance ==
    \E pages \in ExtractInputs \cup {pdfPages} :
        PartiallyAccepted(NormalizedText(AllText(pages)))

\* C22 as amended: extractDataFromPDF returns a record only when every
\* required field was matched and stored, the threshold being the number of
\* required fields; only fields that are not required may be unmatched in a
\* record.
C22_AllRequiredNeeded ==
    (extractPc = "done" /\ extractOutcome = "record") =>
        /\ requiredFieldsFound = Cardinality(RequiredKeys)
        /\ missingRequiredFields = <<>>
        /\ \A key \in RequiredKeys :
               /\ MatchOf(normalizedText, ExtractorOf(key)).ok
               /\ key \in DOMAIN extractedData

\* a record has been returned with the four required fields matched and the
\* procedure code and the diagnosis description unmatched
C22_Witness ==
    /\ extractPc = "done"
    /\ extractOutcome = "record"
    /\ \A key \in RequiredKeys : MatchOf(normalizedText, ExtractorOf(key)).ok
    /\ ~MatchOf(normalizedText, ExtractorOf("procedureCode")).ok
    /\ ~MatchOf(normalizedText, ExtractorOf("diagnosisDescription")).ok
    /\ extractedData["procedureCode"] = Chars("00000")

(***************************************************************************)
(* Claims about overlapping conversions                                    *)
(***************************************************************************)
\* what convertToHL7 returns or throws for a file when no other invocation
\* runs: the encoding of the file's own record
ConvertAlone(v, file) ==
    IF file.ok
    THEN [thrown |-> FALSE,
          hl7 |-> IF v = "CMS"
                  THEN convertToHL7_CMS(file.data, file.keys)
                  ELSE convertToHL7_TD(file.data, file.keys)]
    ELSE [thrown |-> TRUE, hl7 |-> EmptyStr]

\* C23: in every interleaving of two overlapping invocations of convertToHL7
\* on different files, each invocation returns (or throws) exactly what it
\* does when run alone: the wire text of its own record.
C23_RequestIndependence ==
    \A i \in DOMAIN convPc :
        convPc[i] = "returned" => convResult[i] = ConvertAlone(convVariant, convFiles[i])

\* both invocations were suspended at the same time, the second read
\* settled first, and each returned the text of its own record while
\* jsonDataRef holds the record of the first
C23_Witness ==
    /\ convLog = <<<<"call", 1>>, <<"call", 2>>, <<"settle", 2>>, <<"settle", 1>>>>
    /\ convFiles[1].ok /\ convFiles[2].ok
    /\ jsonDataRef.current = convFiles[1].data
    /\ convResult[1].hl7 # convResult[2].hl7
    /\ convResult[2].hl7 = ConvertAlone(convVariant, convFiles[2]).hl7

(***************************************************************************)
(* Claims about the encoders as functions                                  *)
(***************************************************************************)
\* C24: each encoder (convertToHL7 of src/CMSConverter.tsx, the template
\* convertToHL7 of src/unnamed/part_000 and toHl7Format) returns the same
\* wire text when it is applied to the same record a second time, at
\* whatever instant.
C24_Deterministic ==
    Len(detOut) = 2 => detOut[1] = detOut[2]

(***************************************************************************)
(* Claims about extractDataFromJson                                        *)
(***************************************************************************)
\* C30: every record extractDataFromJson returns holds the twelve fields of
\* a CMS1500Data, whatever subset of PV1, DG1, PR1 and IN1 the JSON record
\* holds, so that the wire text of convertToHL7 is built from defined
\* fields only.
C30_JsonRecordFullyShaped ==
    /\ (jsonPc \in {"extracted", "encoded"} /\ jsonOutcome = "record") =>
           /\ DOMAIN jsonFields = CMS1500DataFields
           /\ \A key \in DOMAIN jsonFields : jsonFields[key] # EmptyStr
    /\ jsonPc = "encoded" =>
           \A key \in CMS1500DataFields : key \in DOMAIN jsonFields

(***************************************************************************)
(* Claims about CMS1500ToHL7Converter                                      *)
(***************************************************************************)
\* the wire text the handlers produce from a source file, empty if none
OutputOf(file) ==
    IF file.kind \in {"pdf", "json"} /\ Tabulated(ThreeConversions, file).ok
    THEN Tabulated(ThreeConversions, file).hl7
    ELSE EmptyStr

\* C25: whenever HL7 output is displayed, a source file (pdfFile or
\* jsonFile) is selected and the output is the conversion of that file, after
\* any sequence of drops and conversions, drops during a conversion included.
C25_OutputOfSelectedFile ==
    (component = "Three" /\ hl7Content # EmptyStr) =>
        /\ pdfFile # NoFile \/ jsonFile # NoFile
        /\ hl7Content = OutputOf(IF pdfFile # NoFile THEN pdfFile ELSE jsonFile)

\* C28: at most one of pdfFile, hl7File and jsonFile is non-null, and the
\* file the Convert button converts is the file of the last accepted drop.
C28_OneInputSelected ==
    component = "Three" =>
        /\ Cardinality({z \in Zones :
                           CASE z = "pdf" -> pdfFile # NoFile
                             [] z = "hl7" -> hl7File # NoFile
                             [] z = "json" -> jsonFile # NoFile}) <= 1
        /\ clicked.file = clicked.accepted

\* the second click of the Convert button converts the JSON file, the only
\* file selected and the last one accepted
C28_Witness ==
    /\ component = "Three"
    /\ pdfFile = NoFile /\ hl7File = NoFile
    /\ jsonFile \in ThreeJsonFiles
    /\ error = ""
    /\ isLoading
    /\ clicked.file = jsonFile
    /\ lastAccepted = jsonFile
    /\ requests = 2

(***************************************************************************)
(* Claims about the two-way converter                                      *)
(***************************************************************************)
\* C26: the state in which the result of the latest conversion request is
\* displayed together with a non-empty error message set by an earlier failed
\* conversion attempt is unreachable.
C26_SuccessClearsError ==
    ~ /\ component = "TwoWay"
      /\ resultFrom # 0
      /\ resultFrom = requests
      /\ hl7Content # EmptyStr \/ jsonContent.shown
      /\ error # ""
      /\ errorFrom # 0
      /\ errorFrom < resultFrom

(***************************************************************************)
(* Claims about the loading flag                                           *)
(***************************************************************************)
\* C27: whenever isLoading is true it becomes false again once the read or
\* extraction of the conversion settles, whether the conversion succeeded or
\* failed.
C27_LoadingCleared == isLoading ~> ~isLoading

\* a conversion set isLoading, failed, and isLoading is false again
C27_Witness ==
    /\ ~isLoading
    /\ inFlight = {}
    /\ clicked.file # NoFile
    /\ errorFrom = requests
    /\ errorFrom # 0
    /\ component \in {"Three", "CMS"} \/ clicked.file.kind = "json"

====
